---- MODULE Spec2Model ----
(***************************************************************************)
(* Verification model of ts/types/BodyRange.ts (Signal-Desktop): the body  *)
(* range filter, the range tree builder, the tree collapser and the plain  *)
(* text range applier.                                                     *)
(*                                                                         *)
(* Encodings.  A string is a sequence of one-character strings.  An object *)
(* is a record and an object spread {...a, k: v} is [k |-> v] @@ a (the    *)
(* left operand of @@ wins, as the later property of a spread wins).  A    *)
(* property test ('k' in o) is "k" \in DOMAIN o.  A value of unknown       *)
(* JavaScript type is a record [type, value], see Num and Undefined.       *)
(***************************************************************************)
EXTENDS Integers, Sequences, FiniteSets, Bags, TLC

VARIABLES
    \* ---- range tree builder and collapser
    text,        \* the message text being rendered
    tree,        \* the forest built so far (ReadonlyArray<RangeNode>)
    range,       \* argument `range` of the last insertRange call
    rangeTree,   \* argument `rangeTree` of the last insertRange call
    inserted,    \* all ranges inserted so far, in call order
    collapsed,   \* the result of collapseRangeTree
    error,       \* the message of the Error thrown, or "none"
    pc,          \* position of the caller
    \* ---- filterAndClean
    ranges,            \* argument `ranges`
    idx,               \* 1-based position of the filter callback in `ranges`
    countByTypeRecord, \* the per-category counters
    kept,              \* the elements for which the filter returned true
    warnings,          \* number of log.warn calls so far
    filtered,          \* the value returned by filterAndClean
    \* ---- applyRangesForText
    mentions,    \* argument `mentions`
    spoilers,    \* argument `spoilers`
    applied,     \* the value returned by applyRangesForText
    \* ---- groupContiguousSpoilers
    nodes,       \* argument `nodes`
    grouped,     \* the value returned by groupContiguousSpoilers
    \* ---- processBodyRangesForSearchResult
    source,      \* how the search produced the snippet (not seen by the code)
    snippet,     \* argument `snippet`
    body,        \* argument `body`
    bodyRanges,  \* argument `bodyRanges`
    production,  \* TRUE in a production build, FALSE in a development build
    searchResult, \* the value returned by processBodyRangesForSearchResult
    \* ---- NotificationService (ts/services/notifications.ts)
    isEnabled,           \* this.isEnabled
    lastNotification,    \* this.lastNotification: a Notification or Null
    notificationData,    \* this.notificationData: a record or Null
    updatePending,       \* the debounced update has been requested
    isActive,            \* activeWindowService.isActive(): the app is focused
    notificationSetting, \* storage item 'notification-setting'
    platform,            \* what OS and os.release() say of this machine
    openNotifications,   \* the Notifications created and not closed
    notified,            \* the argument of the last notify call, or Null
    shownSinceAdd,       \* notify calls of fastUpdate since the last add
    \* ---- getKeysForIdentifier (ts/textsecure/getKeysForIdentifier.ts)
    identifier,       \* argument `identifier`
    accessKey,        \* argument `accessKey`
    devicesToUpdate,  \* argument `devicesToUpdate`
    endpointCalls,    \* the server endpoints called so far, in order
    accessKeyFailed,  \* accessKeyFailed of the value getServerKeys returns
    serverKeys,       \* keys of the value getServerKeys returns
    caught,           \* the error on its way to a catch clause, or Null
    archivedSessions, \* the UUIDs given to archiveAllSessions
    sessionJobs,      \* the device ids whose pre-key bundle was processed
    keysOutcome       \* how getKeysForIdentifier settled, or Null

treeVars   == <<text, tree, range, rangeTree, inserted, collapsed, error>>
filterVars == <<ranges, idx, countByTypeRecord, kept, warnings, filtered>>
applyVars  == <<mentions, spoilers, applied>>
groupVars  == <<nodes, grouped>>
snippetVars == <<source, snippet, body, bodyRanges, production, searchResult>>
serviceVars ==
    <<isEnabled, lastNotification, notificationData, updatePending, isActive,
      notificationSetting, platform, openNotifications, notified,
      shownSinceAdd>>
keysVars ==
    <<identifier, accessKey, devicesToUpdate, endpointCalls, accessKeyFailed,
      serverKeys, caught, archivedSessions, sessionJobs, keysOutcome>>
bodyRangeVars == <<treeVars, filterVars, applyVars, groupVars, snippetVars>>
otherVars  == <<serviceVars, keysVars>>
vars       == <<bodyRangeVars, serviceVars, keysVars, pc>>

(***************************************************************************)
(* Bounds of the model                                                     *)
(***************************************************************************)
MaxTextLen  == 3   \* length of the generated text of the tree builder
MaxInserts  == 3   \* number of insertRange calls in one run
MaxRepeat   == 300 \* longest repetition of a pattern in the filter's input
MaxMentions == 2   \* number of mentions given to applyRangesForText
MaxSpoilers == 2   \* number of spoilers given to applyRangesForText

(***************************************************************************)
(* JavaScript values and helpers                                           *)
(***************************************************************************)
\* a number is value / den; NaN is a number whose type tag is "NaN"
Num(n)     == [type |-> "number", value |-> n, den |-> 1]
Frac(n, d) == [type |-> "number", value |-> n, den |-> d]
NaN        == [type |-> "NaN"]
Str(s)     == [type |-> "string", value |-> s]
Undefined  == [type |-> "undefined"]
Null       == [type |-> "null"]
EmptyObject == <<>>

\* object[key], undefined when the object has no such property
Get(object, key) == IF key \in DOMAIN object THEN object[key] ELSE Undefined

\* lodash isNumber: typeof value == 'number' (NaN included)
isNumber(v) == v.type \in {"number", "NaN"}

\* ToBoolean
Truthy(v) ==
    IF v.type = "number" THEN v.value # 0
    ELSE IF v.type = "string" THEN v.value # ""
    ELSE FALSE

\* ToPropertyKey of a number or a string
PropertyKey(v) == IF v.type = "number" THEN ToString(v.value) ELSE v.value

\* v + 1 and v > n on numbers (undefined + 1 is NaN, NaN > n is false)
PlusOne(v) == IF v.type = "number" THEN Frac(v.value + v.den, v.den) ELSE NaN
GreaterThan(v, n) == v.type = "number" /\ v.value > n * v.den

Min(a, b) == IF a < b THEN a ELSE b
Max(a, b) == IF a > b THEN a ELSE b

\* String.prototype.slice(from, to): negative indexes count from the end,
\* both are clamped to [0, length], an empty result when from >= to
sliceIndex(s, i) == IF i < 0 THEN Max(Len(s) + i, 0) ELSE Min(i, Len(s))
slice(s, from, to) == SubSeq(s, sliceIndex(s, from) + 1, sliceIndex(s, to))

\* lodash omit(object, keys)
omit(object, keys) == [k \in (DOMAIN object) \ keys |-> object[k]]

(***************************************************************************)
(* BodyRange namespace                                                     *)
(***************************************************************************)
\* Proto.DataMessage.BodyRange.Style, the wire values of the range schema
NONE == 0
BOLD == 1
ITALIC == 2
STRIKETHROUGH == 3
MONOSPACE == 4
SPOILER == 5
Style == {NONE, BOLD, ITALIC, STRIKETHROUGH, MONOSPACE, SPOILER}
SearchKeywordHighlight == "SearchKeywordHighlight"

isMention(bodyRange) == "mentionUuid" \in DOMAIN bodyRange
isFormatting(bodyRange) == "style" \in DOMAIN bodyRange
isLink(node) == "url" \in DOMAIN node
isDisplayOnly(node) == "displayStyle" \in DOMAIN node

(***************************************************************************)
(* insertRange                                                             *)
(***************************************************************************)
Return(value) == [threw |-> FALSE, value |-> value]
Throw(message) == [threw |-> TRUE, value |-> <<>>, message |-> message]

\* { ...range, ranges: [] }
Leaf(r) == [ranges |-> <<>>] @@ r

\* the conditions of the seven cases, in the order the code tests them
EndsBeforeCurrent(r, current) == r.start + r.length <= current.start
\* variant: a range that starts where current ends is not put after it
StartsAfterCurrent_Strict(r, current) ==
    r.start > current.start + current.length
StartsAfterCurrent(r, current) == r.start >= current.start + current.length
ContainedByCurrent(r, current) ==
    /\ r.start >= current.start
    /\ r.start + r.length <= current.start + current.length
ContainsCurrent(r, current) ==
    /\ r.start < current.start
    /\ r.start + r.length > current.start + current.length
IntersectsBeginning(r, current) ==
    /\ r.start < current.start
    /\ r.start + r.length <= current.start + current.length
\* variant: the case is tested with a strict comparison of the starts
IntersectsEnding_Strict(r, current) ==
    /\ r.start > current.start
    /\ r.start + r.length > current.start + current.length
IntersectsEnding(r, current) ==
    /\ r.start >= current.start
    /\ r.start + r.length > current.start + current.length

\* the pieces a split range is cut into
PrefixBefore(r, current) ==
    [length |-> current.start - r.start, ranges |-> <<>>] @@ r
\* variant: the contained range keeps its start
RebaseInto_Absolute(r, current) == r
RebaseInto(r, current) == [start |-> r.start - current.start] @@ r
\* variant: the part over the contained node is empty
MiddleOver_Empty(r, current) == [start |-> 0, length |-> 0] @@ r
MiddleOver(r, current) == [start |-> 0, length |-> current.length] @@ r
SuffixInside(r, current) ==
    [start |-> 0, length |-> r.length - (current.start - r.start)] @@ r
PrefixInside(r, current) ==
    [start |-> r.start - current.start,
     length |-> (current.start + current.length) - r.start] @@ r
SuffixAfterContaining(r, current) ==
    [start |-> current.start + current.length,
     length |-> (r.start + r.length) - (current.start + current.length)] @@ r
\* variant: the suffix keeps the length of the whole range
SuffixAfterIntersecting_FullLength(r, current) ==
    [start |-> current.start + current.length] @@ r
SuffixAfterIntersecting(r, current) ==
    [start |-> current.start + current.length,
     length |-> r.length - ((current.start + current.length) - r.start)] @@ r

RECURSIVE insertRange(_, _)
insertRange(r, forest) ==
    IF forest = <<>> THEN Return(<<Leaf(r)>>)
    ELSE
    LET current == Head(forest)
        rest == Tail(forest)
        \* { ...current, ranges: <inner> }, followed by <after>
        Into(inner, after) ==
            IF inner.threw THEN inner
            ELSE IF after.threw THEN after
            ELSE Return(<<[ranges |-> inner.value] @@ current>> \o after.value)
    IN
    IF EndsBeforeCurrent(r, current)
    THEN Return(<<Leaf(r), current>> \o rest)
    ELSE IF StartsAfterCurrent(r, current)
    THEN LET after == insertRange(r, rest)
         IN IF after.threw THEN after ELSE Return(<<current>> \o after.value)
    ELSE IF ContainedByCurrent(r, current)
    THEN Into(insertRange(RebaseInto(r, current), current.ranges), Return(rest))
    ELSE IF ContainsCurrent(r, current)
    THEN LET split == Into(insertRange(MiddleOver(r, current), current.ranges),
                           insertRange(SuffixAfterContaining(r, current), rest))
         IN IF split.threw THEN split
            ELSE Return(<<PrefixBefore(r, current)>> \o split.value)
    ELSE IF IntersectsBeginning(r, current)
    THEN LET split == Into(insertRange(SuffixInside(r, current), current.ranges),
                           Return(rest))
         IN IF split.threw THEN split
            ELSE Return(<<PrefixBefore(r, current)>> \o split.value)
    ELSE IF IntersectsEnding(r, current)
    THEN Into(insertRange(PrefixInside(r, current), current.ranges),
              insertRange(SuffixAfterIntersecting(r, current), rest))
    ELSE Throw("unhandled range")

(***************************************************************************)
(* rangeToPartialNode and collapseRangeTree                                *)
(***************************************************************************)
rangeToPartialNode(r) ==
    IF isFormatting(r) THEN
        IF r.style = BOLD THEN [isBold |-> TRUE]
        ELSE IF r.style = ITALIC THEN [isItalic |-> TRUE]
        ELSE IF r.style = MONOSPACE THEN [isMonospace |-> TRUE]
        ELSE IF r.style = SPOILER
        THEN [isSpoiler |-> TRUE,
              spoilerId |-> IF "spoilerId" \in DOMAIN r THEN r.spoilerId
                            ELSE Undefined]
        ELSE IF r.style = STRIKETHROUGH THEN [isStrikethrough |-> TRUE]
        ELSE IF r.style = NONE THEN EmptyObject
        ELSE [missingCaseError |-> TRUE]
    ELSE IF isLink(r) THEN [url |-> r.url]
    ELSE IF isDisplayOnly(r) THEN
        IF r.displayStyle = SearchKeywordHighlight
        THEN [isKeywordHighlight |-> TRUE]
        ELSE [missingCaseError |-> TRUE]
    ELSE [missingCaseError |-> TRUE]

\* the DisplayNode pushed for the text between `from` and `to`
\* variant: start is left relative to the parent node
GapNode_ParentRelative(parentData, parentOffset, txt, from, to, pending) ==
    [text |-> slice(txt, from, to),
     start |-> from,
     length |-> to - from,
     mentions |-> pending] @@ parentData
GapNode(parentData, parentOffset, txt, from, to, pending) ==
    [text |-> slice(txt, from, to),
     start |-> from + parentOffset,
     length |-> to - from,
     mentions |-> pending] @@ parentData

\* variant: the start of the mention is not rebased
PendingMention_NotRebased(r, offset) == omit(r, {"ranges"})
\* the entry pushed on `mentions` for a mention node
PendingMention(r, offset) == [start |-> r.start - offset] @@ omit(r, {"ranges"})

\* variant: offset stops at the start of the node
OffsetAfter_StartOnly(r) == r.start
\* offset after a non-mention node has been collapsed
OffsetAfter(r) == r.start + r.length

RECURSIVE collapseRangeTree(_, _, _, _)
RECURSIVE collapseEach(_, _, _, _, _, _)

\* the body of tree.forEach from element i on; st holds the three locals
collapseEach(parentData, parentOffset, txt, forest, i, st) ==
    IF i > Len(forest) THEN st
    ELSE
    LET r == forest[i] IN
    IF isMention(r)
    THEN collapseEach(parentData, parentOffset, txt, forest, i + 1,
            [st EXCEPT !.mentions = Append(@, PendingMention(r, st.offset))])
    ELSE
    LET gap == r.start > st.offset
        before == IF gap
                  THEN Append(st.collapsed,
                              GapNode(parentData, parentOffset, txt,
                                      st.offset, r.start, st.mentions))
                  ELSE st.collapsed
        partialNode == rangeToPartialNode(r) @@ parentData
        inner == collapseRangeTree(partialNode, r.start + parentOffset,
                                   slice(txt, r.start, r.start + r.length),
                                   r.ranges)
    IN collapseEach(parentData, parentOffset, txt, forest, i + 1,
            [collapsed |-> before \o inner,
             offset |-> OffsetAfter(r),
             mentions |-> IF gap THEN <<>> ELSE st.mentions])

\* variant: no segment for the text after the last range
TrailingNodes_Dropped(parentData, parentOffset, txt, st) == <<>>
\* the trailing DisplayNode, "Empty space after the last range"
TrailingNodes(parentData, parentOffset, txt, st) ==
    IF Len(txt) > st.offset
    THEN <<GapNode(parentData, parentOffset, txt, st.offset, Len(txt),
                   st.mentions)>>
    ELSE <<>>

collapseRangeTree(parentData, parentOffset, txt, forest) ==
    LET st == collapseEach(parentData, parentOffset, txt, forest, 1,
                           [collapsed |-> <<>>, offset |-> 0, mentions |-> <<>>])
    IN st.collapsed \o TrailingNodes(parentData, parentOffset, txt, st)

(***************************************************************************)
(* The range tree builder and the collapser as a state machine: a caller   *)
(* reduces a list of ranges into a forest with insertRange, then flattens  *)
(* it with collapseRangeTree (as the message text renderer does).          *)
(***************************************************************************)
Alphabet == <<"a", "b", "c", "d", "e", "f", "g", "h">>
Hello == <<"h", "e", "l", "l", "o", " ", "w", "o", "r", "l", "d">>
Bob == <<"B", "o", "b">>

\* the offsets at which generated ranges start and end
Cuts(txt) == IF txt = Hello THEN {0, 3, 5, 8} ELSE 0 .. Len(txt)

FormattingRange(s, l, style) == [start |-> s, length |-> l, style |-> style]
\* a hydrated mention: its length is always 1
MentionRange(s) ==
    [start |-> s, length |-> 1, mentionUuid |-> "uuid-1",
     replacementText |-> Bob, conversationID |-> "conversation-1"]

\* the valid ranges over txt: 0 <= start and start + length <= txt.length
ValidRanges(txt) ==
    LET spans == {sp \in Cuts(txt) \X Cuts(txt) : sp[1] <= sp[2]}
    IN {FormattingRange(sp[1], sp[2] - sp[1], st) :
            sp \in spans, st \in {BOLD, ITALIC}}
       \cup {MentionRange(s) : s \in 0 .. Len(txt) - 1}

NoRange == [start |-> 0, length |-> 0]

TreeIdle ==
    /\ tree = <<>> /\ range = NoRange /\ rangeTree = <<>> /\ inserted = <<>>
    /\ collapsed = <<>> /\ error = "none"
FilterIdle ==
    /\ ranges = <<>> /\ idx = 1 /\ countByTypeRecord = <<>> /\ kept = <<>>
    /\ warnings = 0 /\ filtered = <<>>
ApplyIdle == mentions = <<>> /\ spoilers = <<>> /\ applied = <<>>
GroupIdle == nodes = <<>> /\ grouped = <<>>
SnippetIdle ==
    /\ source = <<>> /\ snippet = <<>> /\ body = <<>> /\ bodyRanges = <<>>
    /\ production = TRUE /\ searchResult = <<>>
ServiceIdle ==
    /\ isEnabled = FALSE /\ lastNotification = <<>> /\ notificationData = <<>>
    /\ updatePending = FALSE /\ isActive = FALSE /\ notificationSetting = <<>>
    /\ platform = <<>> /\ openNotifications = {} /\ notified = <<>>
    /\ shownSinceAdd = 0
KeysIdle ==
    /\ identifier = <<>> /\ accessKey = <<>> /\ devicesToUpdate = <<>>
    /\ endpointCalls = <<>> /\ accessKeyFailed = <<>>
    /\ serverKeys = <<>>
    /\ caught = <<>> /\ archivedSessions = {} /\ sessionJobs = {}
    /\ keysOutcome = <<>>
OthersIdle == ServiceIdle /\ KeysIdle

InitTree ==
    /\ text = SubSeq(Alphabet, 1, MaxTextLen)
    /\ TreeIdle /\ FilterIdle /\ ApplyIdle /\ GroupIdle /\ SnippetIdle /\ OthersIdle
    /\ pc = "build"

\* tree = insertRange(r, tree) for a valid range r
InsertRange ==
    /\ pc = "build"
    /\ Len(inserted) < MaxInserts
    /\ \E r \in ValidRanges(text) :
         LET result == insertRange(r, tree) IN
         /\ range' = r
         /\ rangeTree' = tree
         /\ inserted' = Append(inserted, r)
         /\ IF result.threw
            THEN /\ error' = result.message
                 /\ pc' = "thrown"
                 /\ tree' = tree
            ELSE /\ error' = error
                 /\ pc' = pc
                 /\ tree' = result.value
    /\ UNCHANGED <<otherVars, groupVars, snippetVars, text, collapsed, filterVars, applyVars>>

\* collapsed = collapseRangeTree({ text, tree })
Collapse ==
    /\ pc = "build"
    /\ collapsed' = collapseRangeTree(EmptyObject, 0, text, tree)
    /\ pc' = "collapsed"
    /\ UNCHANGED <<otherVars, groupVars, snippetVars, text, tree, range, rangeTree, inserted, error,
                   filterVars, applyVars>>

NextTree == InsertRange \/ Collapse
Spec == InitTree /\ [][NextTree]_vars

InitHello ==
    /\ text = Hello
    /\ TreeIdle /\ FilterIdle /\ ApplyIdle /\ GroupIdle /\ SnippetIdle /\ OthersIdle
    /\ pc = "build"

SpecHello == InitHello /\ [][NextTree]_vars

(***************************************************************************)
(* Properties of the range tree builder and the collapser                  *)
(***************************************************************************)
RECURSIVE ConcatText(_)
ConcatText(list) ==
    IF list = <<>> THEN <<>> ELSE Head(list).text \o ConcatText(Tail(list))

RECURSIVE CountNodes(_)
CountNodes(forest) ==
    IF forest = <<>> THEN 0
    ELSE 1 + CountNodes(Head(forest).ranges) + CountNodes(Tail(forest))

\* some range was split by an insertion
SomeRangeSplit == CountNodes(tree) > Len(inserted)
\* some node of the forest has children
SomeNodeNested == \E i \in 1 .. Len(tree) : tree[i].ranges # <<>>

\* C1 (coverage): the texts of the segments returned by collapseRangeTree,
\* concatenated in output order, are the original text
CoverageHolds == pc = "collapsed" => ConcatText(collapsed) = text

CoverageWitness ==
    /\ pc = "collapsed" /\ Len(inserted) >= 3
    /\ SomeRangeSplit /\ SomeNodeNested
    /\ Len(collapsed) >= 3

\* siblings are sorted ascending by start and pairwise non-overlapping, each
\* lies within [0, bound), and so do the children of each within their parent
RECURSIVE ForestInvariant(_, _)
ForestInvariant(forest, bound) ==
    /\ \A i \in 1 .. Len(forest) :
         /\ forest[i].start >= 0
         /\ forest[i].length >= 0
         /\ forest[i].start + forest[i].length <= bound
         /\ ForestInvariant(forest[i].ranges, forest[i].length)
    /\ \A i, j \in 1 .. Len(forest) :
         i < j => /\ forest[i].start <= forest[j].start
                  /\ forest[i].start + forest[i].length <= forest[j].start

\* C2 (forest invariant): insertRange returns a forest that satisfies the
\* forest invariant whenever the forest it was given does, so every forest
\* built from the empty one does
ForestInvariantPreserved ==
    /\ ForestInvariant(rangeTree, Len(text)) => ForestInvariant(tree, Len(text))
    /\ ForestInvariant(tree, Len(text))

ForestInvariantWitness ==
    /\ Len(inserted) >= 3 /\ SomeRangeSplit /\ SomeNodeNested /\ Len(tree) >= 2
    /\ error = "none"

\* the nodes of a forest as a bag of absolute intervals with their kind
RECURSIVE AbsoluteNodes(_, _)
AbsoluteNodes(forest, base) ==
    IF forest = <<>> THEN EmptyBag
    ELSE LET node == Head(forest)
             abs == [start |-> node.start + base] @@ omit(node, {"ranges"})
         IN SetToBag({abs})
            (+) AbsoluteNodes(node.ranges, node.start + base)
            (+) AbsoluteNodes(Tail(forest), base)

Positions(r) == r.start .. (r.start + r.length - 1)
KindOf(r) == omit(r, {"start", "length", "ranges"})

\* C3 (no loss on insertion): the nodes created by the last insertRange carry
\* the inserted range's kind, are pairwise disjoint and cover exactly the
\* inserted interval, and every node of the forest before is still there
NoLossOnInsertion ==
    (inserted # <<>> /\ error = "none") =>
        LET before == AbsoluteNodes(rangeTree, 0)
            after == AbsoluteNodes(tree, 0)
            created == after (-) before
            pieces == BagToSet(created)
        IN /\ before \sqsubseteq after
           /\ \A n \in pieces : KindOf(n) = KindOf(range)
           /\ \A n \in pieces : n.length > 0 => created[n] = 1
           /\ \A n, m \in pieces : n # m => Positions(n) \cap Positions(m) = {}
           /\ UNION {Positions(n) : n \in pieces} = Positions(range)
           /\ pieces # {}

NoLossWitness ==
    /\ Len(inserted) >= 3 /\ error = "none"
    /\ CountNodes(tree) >= CountNodes(rangeTree) + 3

\* C4 (adjacency): each segment returned by collapseRangeTree starts where
\* the previous one ends, in original text coordinates
AdjacencyHolds ==
    pc = "collapsed" =>
        \A i \in 1 .. Len(collapsed) - 1 :
            collapsed[i].start + collapsed[i].length = collapsed[i + 1].start

AdjacencyWitness ==
    /\ pc = "collapsed" /\ SomeNodeNested /\ Len(collapsed) >= 3
    /\ \E i \in 1 .. Len(tree) : tree[i].start > 0 /\ tree[i].ranges # <<>>

\* C5: insertRange never throws 'unhandled range'
NeverUnhandledRange == error = "none" /\ pc # "thrown"

NeverUnhandledWitness ==
    /\ Len(inserted) >= 3 /\ SomeRangeSplit /\ error = "none"
    /\ \E i \in 1 .. Len(tree) : Len(tree[i].ranges) >= 2

HelloRanges == <<FormattingRange(0, 5, BOLD), FormattingRange(3, 5, ITALIC)>>
HelloSegments ==
    << [text |-> <<"h", "e", "l">>, start |-> 0, length |-> 3,
        mentions |-> <<>>, isBold |-> TRUE],
       [text |-> <<"l", "o">>, start |-> 3, length |-> 2,
        mentions |-> <<>>, isBold |-> TRUE, isItalic |-> TRUE],
       [text |-> <<" ", "w", "o">>, start |-> 5, length |-> 3,
        mentions |-> <<>>, isItalic |-> TRUE],
       [text |-> <<"r", "l", "d">>, start |-> 8, length |-> 3,
        mentions |-> <<>>] >>

HelloInserted ==
    /\ text = Hello
    /\ \/ inserted = HelloRanges
       \/ inserted = <<HelloRanges[2], HelloRanges[1]>>

\* C9 (overlap example): "hello world" with [0,5) BOLD and [3,8) ITALIC
\* collapses to "hel" bold, "lo" bold and italic, " wo" italic, "rld" plain
OverlapExample ==
    (HelloInserted /\ pc = "collapsed") => collapsed = HelloSegments

OverlapExampleWitness ==
    HelloInserted /\ pc = "collapsed" /\ Len(collapsed) = 4

(***************************************************************************)
(* filterAndClean                                                          *)
(***************************************************************************)
MAX_PER_TYPE == 250
MENTION_NAME == "mention"

InitialCounts ==
    [k \in {MENTION_NAME, ToString(BOLD), ToString(ITALIC), ToString(MONOSPACE),
            ToString(SPOILER), ToString(STRIKETHROUGH), ToString(NONE)}
       |-> Num(0)]

\* the two typeof checks on start and length
\* variant: start is not checked
HasNumberStart_Unchecked(r) == TRUE
HasNumberStart(r) == isNumber(Get(r, "start"))
HasNumberLength(r) == isNumber(Get(r, "length"))
\* the tests that classify a range
HasMention(r) == Truthy(Get(r, "mentionUuid"))
HasStyle(r) == Truthy(Get(r, "style"))

\* countByTypeRecord[key] += 1
Increment(counts, key) ==
    (key :> PlusOne(Get(counts, key))) @@ counts
\* the cap test after a counter was incremented
OverCap(counts, key) == GreaterThan(Get(counts, key), MAX_PER_TYPE)

\* one call of the filter callback: what it returns, the counters after it
\* and whether it logged a warning
FilterCallback(r, counts) ==
    IF ~HasNumberStart(r)
    THEN [keep |-> FALSE, counts |-> counts, warned |-> TRUE]
    ELSE IF ~HasNumberLength(r)
    THEN [keep |-> FALSE, counts |-> counts, warned |-> TRUE]
    ELSE IF HasMention(r)
    THEN LET after == Increment(counts, MENTION_NAME)
         IN [keep |-> ~OverCap(after, MENTION_NAME), counts |-> after,
             warned |-> FALSE]
    ELSE IF HasStyle(r)
    THEN LET key == PropertyKey(r.style)
             after == Increment(counts, key)
         IN [keep |-> ~OverCap(after, key), counts |-> after, warned |-> FALSE]
    ELSE [keep |-> FALSE, counts |-> counts, warned |-> TRUE]

\* .map(range => ({ ...range }))
ShallowCopies(rs) == [i \in 1 .. Len(rs) |-> EmptyObject @@ rs[i]]

(***************************************************************************)
(* The inputs of the filter: a pattern of one or two raw ranges repeated,  *)
(* the range at position i (0-based) carrying start i where the pattern    *)
(* gives it a well-formed start                                            *)
(***************************************************************************)
RawShapes ==
    { [length |-> Num(1), mentionUuid |-> Str("uuid-1")],
      [length |-> Num(1), style |-> Num(BOLD)],
      [length |-> Num(1), style |-> Num(ITALIC)],
      [length |-> Num(1), style |-> Num(NONE)],
      [length |-> Num(1), mentionUuid |-> Str("uuid-1"), style |-> Num(BOLD)],
      [length |-> Num(1)],
      [length |-> Num(1), style |-> Num(BOLD), start |-> Undefined],
      [length |-> Num(1), style |-> Num(BOLD), start |-> Num(-1)],
      [length |-> Null, style |-> Num(BOLD)],
      [length |-> Frac(3, 2), style |-> Num(BOLD)],
      [length |-> Str("1"), mentionUuid |-> Str("uuid-1")] }

Patterns ==
    {<<a>> : a \in RawShapes}
    \cup {p \in RawShapes \X RawShapes : p[1] # p[2]}

Repeats == {1, MAX_PER_TYPE, MaxRepeat}

\* the pattern repeated n times, positions written into the absent starts
Repeated(pattern, n) ==
    [i \in 1 .. n * Len(pattern) |->
        LET shape == pattern[((i - 1) % Len(pattern)) + 1]
        IN shape @@ [start |-> Num(i - 1)]]

Array(elements) == [type |-> "array", value |-> elements]

InitFilter ==
    /\ text = <<>> /\ TreeIdle /\ ApplyIdle /\ GroupIdle /\ SnippetIdle /\ OthersIdle
    /\ \/ \E pattern \in Patterns, n \in Repeats :
            ranges = Array(Repeated(pattern, n))
       \/ ranges \in {Undefined, Null, Array(<<>>)}
    /\ idx = 1
    /\ countByTypeRecord = InitialCounts
    /\ kept = <<>>
    /\ warnings = 0
    /\ filtered = Undefined
    /\ pc = "filter"

\* if (!ranges) return undefined
FilterNoRanges ==
    /\ pc = "filter"
    /\ ranges.type # "array"
    /\ filtered' = Undefined
    /\ pc' = "done"
    /\ UNCHANGED <<otherVars, groupVars, snippetVars, treeVars, applyVars, ranges, idx, countByTypeRecord, kept,
                   warnings>>

\* the filter callback on ranges[idx]
FilterStep ==
    /\ pc = "filter"
    /\ ranges.type = "array"
    /\ idx <= Len(ranges.value)
    /\ LET r == ranges.value[idx]
           out == FilterCallback(r, countByTypeRecord)
       IN /\ countByTypeRecord' = out.counts
          /\ kept' = IF out.keep THEN Append(kept, r) ELSE kept
          /\ warnings' = IF out.warned THEN warnings + 1 ELSE warnings
    /\ idx' = idx + 1
    /\ UNCHANGED <<otherVars, groupVars, snippetVars, treeVars, applyVars, ranges, filtered, pc>>

\* the end of the filter: the kept ranges are copied and returned
FilterReturn ==
    /\ pc = "filter"
    /\ ranges.type = "array"
    /\ idx > Len(ranges.value)
    /\ filtered' = Array(ShallowCopies(kept))
    /\ pc' = "done"
    /\ UNCHANGED <<otherVars, groupVars, snippetVars, treeVars, applyVars, ranges, idx, countByTypeRecord, kept,
                   warnings>>

NextFilter == FilterNoRanges \/ FilterStep \/ FilterReturn
SpecFilter == InitFilter /\ [][NextFilter]_vars

(***************************************************************************)
(* Properties of filterAndClean                                            *)
(***************************************************************************)
FilterDone == pc = "done" /\ ranges.type = "array" /\ filtered.type = "array"

\* a valid non-negative integer
IsNonNegativeInteger(v) ==
    v.type = "number" /\ v.value >= 0 /\ v.value % v.den = 0
\* start and length are valid non-negative integers
WellFormed(r) ==
    IsNonNegativeInteger(Get(r, "start")) /\ IsNonNegativeInteger(Get(r, "length"))
\* start and length are of type number
NumberTyped(r) == isNumber(Get(r, "start")) /\ isNumber(Get(r, "length"))

\* the category of a range: a mention when it has a participant id, else its
\* style value when it has one (NONE included), else unknown
CategoryOf(r) ==
    IF Get(r, "mentionUuid").type = "string" THEN MENTION_NAME
    ELSE IF Get(r, "style").type = "number" THEN ToString(r.style.value)
    ELSE "unknown"
Categories == DOMAIN InitialCounts

FirstN(seq, n) == SubSeq(seq, 1, Min(Len(seq), n))
OfCategory(seq, c) == LET Test(r) == CategoryOf(r) = c IN SelectSeq(seq, Test)
WellFormedOnly(seq) == SelectSeq(seq, WellFormed)
NumberTypedOnly(seq) == SelectSeq(seq, NumberTyped)

\* C6 (cap enforcement): for every category, mentions and each style value,
\* the output holds exactly the first min(n, 250) well-formed input ranges of
\* that category, in input order
CapEnforcedPerCategory ==
    FilterDone =>
        \A c \in Categories :
            OfCategory(filtered.value, c)
                = FirstN(OfCategory(WellFormedOnly(ranges.value), c), MAX_PER_TYPE)

\* C7: a well-formed range without participant id whose style is NONE is
\* kept as a formatting range (up to the cap of NONE)
NoneStyleKept ==
    FilterDone =>
        \A i \in 1 .. Min(Len(ranges.value), MAX_PER_TYPE) :
            LET r == ranges.value[i]
            IN (WellFormed(r) /\ CategoryOf(r) = ToString(NONE))
                   => \E j \in 1 .. Len(filtered.value) : filtered.value[j] = r

SPOILER_REPLACEMENT == <<"■", "■", "■", "■">>

\* Array.prototype.sort((a, b) => b.start - a.start): stable, descending by
\* start
RECURSIVE InsertDescending(_, _)
InsertDescending(sorted, x) ==
    IF sorted = <<>> THEN <<x>>
    ELSE IF Head(sorted).start < x.start THEN <<x>> \o sorted
    ELSE <<Head(sorted)>> \o InsertDescending(Tail(sorted), x)

RECURSIVE SortDescendingByStart(_)
SortDescendingByStart(seq) ==
    IF seq = <<>> THEN <<>>
    ELSE InsertDescending(SortDescendingByStart(SubSeq(seq, 1, Len(seq) - 1)),
                          seq[Len(seq)])

\* the filter and the map applied to sortableMentions for one spoiler
KeepsMention(mention, spoiler) ==
    \/ mention.start < spoiler.start
    \/ mention.start >= spoiler.start + spoiler.length
\* variant: the mentions after the spoiler keep their start
ShiftMention_Unshifted(mention, spoiler) == mention
ShiftMention(mention, spoiler) ==
    IF mention.start >= spoiler.start + spoiler.length
    THEN [start |-> mention.start
                      - (spoiler.length - Len(SPOILER_REPLACEMENT))] @@ mention
    ELSE mention
MentionsAfterSpoiler(sortable, spoiler) ==
    LET Keeps(m) == KeepsMention(m, spoiler)
        remaining == SelectSeq(sortable, Keeps)
    IN [i \in 1 .. Len(remaining) |-> ShiftMention(remaining[i], spoiler)]

\* `${left}${SPOILER_REPLACEMENT}${right}`
SpoilerReplaced(acc, spoiler) ==
    slice(acc, 0, spoiler.start)
        \o SPOILER_REPLACEMENT
        \o slice(acc, spoiler.start + spoiler.length, Len(acc))

\* variant: the mention is inserted without removing the character it covers
MentionReplaced_KeepsChar(acc, mention) ==
    slice(acc, 0, mention.start)
        \o <<"@">> \o mention.replacementText
        \o slice(acc, mention.start, Len(acc))
\* `${left}@${replacementText}${right}`
MentionReplaced(acc, mention) ==
    slice(acc, 0, mention.start)
        \o <<"@">> \o mention.replacementText
        \o slice(acc, mention.start + mention.length, Len(acc))

\* the reduce over the sorted spoilers; st holds acc and sortableMentions
RECURSIVE ReduceSpoilers(_, _)
ReduceSpoilers(sorted, st) ==
    IF sorted = <<>> THEN st
    ELSE ReduceSpoilers(Tail(sorted),
            [acc |-> SpoilerReplaced(st.acc, Head(sorted)),
             sortableMentions |->
                 MentionsAfterSpoiler(st.sortableMentions, Head(sorted))])

\* the reduce over the sorted mentions
RECURSIVE ReduceMentions(_, _)
ReduceMentions(sorted, acc) ==
    IF sorted = <<>> THEN acc
    ELSE ReduceMentions(Tail(sorted), MentionReplaced(acc, Head(sorted)))

applyRangesForText(txt, ms, sps) ==
    IF txt = <<>> THEN txt
    ELSE LET st == ReduceSpoilers(SortDescendingByStart(sps),
                                  [acc |-> txt, sortableMentions |-> ms])
         IN ReduceMentions(SortDescendingByStart(st.sortableMentions), st.acc)

(***************************************************************************)
(* A caller of applyRangesForText (a notification preview)                 *)
(***************************************************************************)
ABcD == <<"a", " ", "b", "c", " ", "d">>

HydratedMention(s, name) ==
    [start |-> s, length |-> 1, mentionUuid |-> "uuid-1",
     replacementText |-> name, conversationID |-> "conversation-1"]
SpoilerRange(s, l) == [start |-> s, length |-> l, style |-> SPOILER]

SeqsUpTo(S, n) == UNION {[1 .. k -> S] : k \in 0 .. n}

\* the display name of the participant mentioned at offset s
Al == <<"A", "l">>
NameAt(s) == IF s % 2 = 0 THEN Bob ELSE Al
MentionsOver(txt) == {HydratedMention(s, NameAt(s)) : s \in 0 .. Len(txt) - 1}
SpoilersOver(txt) ==
    {SpoilerRange(sp[1], sp[2] - sp[1]) :
        sp \in {p \in (0 .. Len(txt)) \X (0 .. Len(txt)) : p[1] < p[2]}}

InitApply ==
    /\ text \in {ABcD, <<>>}
    /\ TreeIdle /\ FilterIdle /\ GroupIdle /\ SnippetIdle /\ OthersIdle
    /\ mentions \in SeqsUpTo(MentionsOver(text), MaxMentions)
    /\ spoilers \in SeqsUpTo(SpoilersOver(text), MaxSpoilers)
    /\ applied = <<>>
    /\ pc = "apply"

\* applied = applyRangesForText({ text, mentions, spoilers })
ApplyRanges ==
    /\ pc = "apply"
    /\ applied' = applyRangesForText(text, mentions, spoilers)
    /\ pc' = "done"
    /\ UNCHANGED <<otherVars, groupVars, snippetVars, treeVars, filterVars, mentions, spoilers>>

NextApply == ApplyRanges
SpecApply == InitApply /\ [][NextApply]_vars

(***************************************************************************)
(* Properties of applyRangesForText                                        *)
(***************************************************************************)
BobAtTwo ==
    /\ text = ABcD
    /\ mentions = <<HydratedMention(2, Bob)>>
    /\ spoilers = <<>>
    /\ pc = "done"

\* C10 as stated: "a bc d" with one mention of Bob at start 2, length 1, and
\* no spoilers gives "a @Bob d"
MentionSubstitutionAsStated ==
    BobAtTwo => applied = <<"a", " ", "@", "B", "o", "b", " ", "d">>

\* C10 as amended: the mention replaces the one character at offset 2 and
\* the character after it stays, giving "a @Bobc d"
MentionSubstitution ==
    BobAtTwo => applied = <<"a", " ", "@", "B", "o", "b", "c", " ", "d">>

MentionSubstitutionWitness == BobAtTwo /\ Len(applied) = Len(text) + Len(Bob)

ApplyDone == pc = "done" /\ text # <<>>

Covers(r, p) == r.start <= p /\ p < r.start + r.length
\* offset p of the text lies inside some spoiler
InSomeSpoiler(p) == \E i \in 1 .. Len(spoilers) : Covers(spoilers[i], p)
Chars(seq) == {seq[i] : i \in 1 .. Len(seq)}
Occurrences(seq, ch) == Cardinality({i \in 1 .. Len(seq) : seq[i] = ch})

\* the characters of the text that occur only inside spoilers and in no
\* display name
HiddenChars ==
    {text[p + 1] : p \in {q \in 0 .. Len(text) - 1 : InSomeSpoiler(q)}}
        \ ({text[p + 1] : p \in {q \in 0 .. Len(text) - 1 : ~InSomeSpoiler(q)}}
           \cup Chars(Bob) \cup Chars(Al))

\* C11 (spoilers are masked): no character of the text that lies inside a
\* spoiler range is left in the result, also for nested and overlapping
\* spoilers and for spoilers shorter than the placeholder
SpoilersMasked == ApplyDone => HiddenChars \cap Chars(applied) = {}

\* no two spoilers share an offset, the mentions are at distinct offsets
DisjointSpoilers ==
    \A i, j \in 1 .. Len(spoilers) :
        i # j => \A p \in 0 .. Len(text) - 1 :
                    ~(Covers(spoilers[i], p) /\ Covers(spoilers[j], p))
DistinctMentions ==
    \A i, j \in 1 .. Len(mentions) : i # j => mentions[i].start # mentions[j].start
MentionsOutsideSpoilers ==
    \A i \in 1 .. Len(mentions) : ~InSomeSpoiler(mentions[i].start)

\* the text from offset p on with every spoiler span replaced by the
\* placeholder and the character at every mention by "@" + displayName
RECURSIVE Substituted(_)
Substituted(p) ==
    IF p >= Len(text) THEN <<>>
    ELSE IF \E i \in 1 .. Len(spoilers) : spoilers[i].start = p
    THEN LET i == CHOOSE k \in 1 .. Len(spoilers) : spoilers[k].start = p
         IN SPOILER_REPLACEMENT \o Substituted(p + spoilers[i].length)
    ELSE IF \E i \in 1 .. Len(mentions) : mentions[i].start = p
    THEN LET i == CHOOSE k \in 1 .. Len(mentions) : mentions[k].start = p
         IN <<"@">> \o mentions[i].replacementText \o Substituted(p + 1)
    ELSE <<text[p + 1]>> \o Substituted(p + 1)

OnlyOutsideMentionsExpanded ==
    (ApplyDone /\ DistinctMentions) =>
        Occurrences(applied, "@")
            = Cardinality({i \in 1 .. Len(mentions) :
                              ~InSomeSpoiler(mentions[i].start)})

\* the same two statements when the spoilers are pairwise disjoint
SpoilersMaskedWhenDisjoint == DisjointSpoilers => SpoilersMasked
OnlyOutsideMentionsExpandedWhenDisjoint ==
    DisjointSpoilers => OnlyOutsideMentionsExpanded

(***************************************************************************)
(* Properties of the collapser about mentions                              *)
(***************************************************************************)
\* the mentions inserted so far, as indexes into `inserted`
InsertedMentions == {k \in 1 .. Len(inserted) : isMention(inserted[k])}

\* the entries of the mentions lists of the segments, as <<segment, entry>>
MentionEntries ==
    {e \in (1 .. Len(collapsed)) \X (1 .. MaxInserts + 1) :
        e[2] <= Len(collapsed[e[1]].mentions)}
\* the absolute start of an entry: segment.start + mention.start
EntryStart(e) == collapsed[e[1]].start + collapsed[e[1]].mentions[e[2]].start

\* no segment is emitted for a mention node itself
NoMentionSegment ==
    \A i \in 1 .. Len(collapsed) :
        /\ "mentionUuid" \notin DOMAIN collapsed[i]
        /\ "ranges" \notin DOMAIN collapsed[i]

MentionsAtDistinctStarts ==
    \A j, k \in InsertedMentions : j # k => inserted[j].start # inserted[k].start

InsertedIntoForest == inserted # <<>> /\ rangeTree # <<>> /\ error = "none"
HeadNode == rangeTree[1]
EndsAtHeadStart == range.start + range.length = HeadNode.start
StartsAtHeadEnd == range.start = HeadNode.start + HeadNode.length

\* the range is one node of the top level, with its start and length, and
\* the nodes that were there are all still there
PlacedWhole ==
    /\ Len(tree) = Len(rangeTree) + 1
    /\ \E i \in 1 .. Len(tree) :
          /\ tree[i] = Leaf(range)
          /\ [j \in 1 .. Len(rangeTree) |-> IF j < i THEN tree[j] ELSE tree[j + 1]]
                = rangeTree

OverlapsLaterSibling ==
    \E j \in 2 .. Len(rangeTree) :
        /\ range.start < rangeTree[j].start + rangeTree[j].length
        /\ rangeTree[j].start < range.start + range.length

MaxNodes == 4   \* number of display nodes given to groupContiguousSpoilers

\* node.isSpoiler as a condition
IsSpoilerNode(node) == "isSpoiler" \in DOMAIN node /\ node.isSpoiler

\* the second and third operands of the test that continues a container
\* variant: a container is never continued
SameSpoilerId_Never(container, node) == FALSE
SameSpoilerId(container, node) ==
    /\ isNumber(Get(container, "spoilerId"))
    /\ Get(container, "spoilerId") = Get(node, "spoilerId")

\* spoilerContainer.spoilerChildren = [...(spoilerChildren || []), node];
\* the container is the element of result at index st.spoilerContainer
AppendChild(st, node) ==
    LET container == st.result[st.spoilerContainer]
        children  == IF "spoilerChildren" \in DOMAIN container
                     THEN container.spoilerChildren ELSE <<>>
    IN [st EXCEPT !.result[st.spoilerContainer] =
            [spoilerChildren |-> Append(children, node)] @@ container]

\* spoilerContainer = {...node, isSpoiler: true, spoilerChildren: [node]}
NewContainer(node) ==
    [isSpoiler |-> TRUE, spoilerChildren |-> <<node>>] @@ node

\* the else branch of the callback: a node that is not a spoiler
\* variant: the current container stays open
PassThrough_KeepsContainer(st, node) ==
    [st EXCEPT !.result = Append(st.result, node)]
PassThrough(st, node) ==
    [result |-> Append(st.result, node), spoilerContainer |-> 0]

\* the callback of nodes.forEach; st.spoilerContainer is the index in result
\* of the object `spoilerContainer` refers to, 0 when it is undefined
GroupCallback(st, node) ==
    IF IsSpoilerNode(node) THEN
        IF st.spoilerContainer # 0
           /\ SameSpoilerId(st.result[st.spoilerContainer], node)
        THEN AppendChild(st, node)
        ELSE [result |-> Append(st.result, NewContainer(node)),
              spoilerContainer |-> Len(st.result) + 1]
    ELSE PassThrough(st, node)

RECURSIVE GroupEach(_, _)
GroupEach(st, list) ==
    IF list = <<>> THEN st
    ELSE GroupEach(GroupCallback(st, Head(list)), Tail(list))

groupContiguousSpoilers(list) ==
    GroupEach([result |-> <<>>, spoilerContainer |-> 0], list).result

\* ---- the inputs: display nodes as collapseRangeTree produces them, one
\* character each, the k-th at start k - 1
NodeKinds == {"plain", "bold", "spoiler", "spoiler5", "spoiler6"}
DisplayNodeAt(k, kind) ==
    LET base == [text |-> <<"a">>, start |-> k - 1, length |-> 1,
                 mentions |-> <<>>]
    IN  IF kind = "plain" THEN base
        ELSE IF kind = "bold" THEN [isBold |-> TRUE] @@ base
        ELSE IF kind = "spoiler"
        THEN [isSpoiler |-> TRUE, spoilerId |-> Undefined] @@ base
        ELSE IF kind = "spoiler5"
        THEN [isSpoiler |-> TRUE, spoilerId |-> Num(5)] @@ base
        ELSE [isSpoiler |-> TRUE, spoilerId |-> Num(6)] @@ base
DisplayNodes(kinds) == [k \in 1 .. Len(kinds) |-> DisplayNodeAt(k, kinds[k])]
NodeLists ==
    {DisplayNodes(kinds) : kinds \in SeqsUpTo(NodeKinds, MaxNodes)}

InitGroup ==
    /\ nodes \in NodeLists
    /\ grouped = <<>>
    /\ text = <<>>
    /\ TreeIdle /\ FilterIdle /\ ApplyIdle /\ SnippetIdle /\ OthersIdle
    /\ pc = "group"

GroupSpoilers ==
    /\ pc = "group"
    /\ grouped' = groupContiguousSpoilers(nodes)
    /\ pc' = "grouped"
    /\ UNCHANGED <<otherVars, treeVars, filterVars, applyVars, snippetVars, nodes>>

NextGroup == GroupSpoilers
SpecGroup == InitGroup /\ [][NextGroup]_vars

GroupDone == pc = "grouped"
IsContainer(node) == "spoilerChildren" \in DOMAIN node
HasNumericId(node) == IsSpoilerNode(node) /\ isNumber(Get(node, "spoilerId"))

\* nodes[a .. b] is a maximal run of spoilers with one numeric id
SameRun(a, b) ==
    /\ a <= b
    /\ \A k \in a .. b :
          HasNumericId(nodes[k]) /\ nodes[k].spoilerId = nodes[a].spoilerId
MaximalRun(a, b) ==
    /\ SameRun(a, b)
    /\ a > 1 => ~SameRun(a - 1, b)
    /\ b < Len(nodes) => ~SameRun(a, b + 1)
MaximalRuns ==
    {p \in (1 .. Len(nodes)) \X (1 .. Len(nodes)) : MaximalRun(p[1], p[2])}

\* the containers of the output that hold nodes[a]
ContainersOf(a) ==
    {k \in 1 .. Len(grouped) :
        /\ IsContainer(grouped[k])
        /\ \E c \in 1 .. Len(grouped[k].spoilerChildren) :
              grouped[k].spoilerChildren[c] = nodes[a]}

\* C15 (spoiler grouping): every maximal run of consecutive spoiler nodes
\* with the same numeric spoilerId becomes exactly one container, which has
\* the properties of the first node of the run and whose spoilerChildren are
\* the nodes of the run in order; the next run gets a container of its own
RunsBecomeContainers ==
    GroupDone =>
        \A p \in MaximalRuns :
            /\ Cardinality(ContainersOf(p[1])) = 1
            /\ \A k \in ContainersOf(p[1]) :
                  /\ grouped[k].spoilerChildren = SubSeq(nodes, p[1], p[2])
                  /\ omit(grouped[k], {"spoilerChildren"}) = nodes[p[1]]
                  /\ \A q \in MaximalRuns :
                        q # p => k \notin ContainersOf(q[1])

\* three nodes of id 5 then one of id 6: a container of three, then a second
FiveFiveFiveSix ==
    DisplayNodes(<<"spoiler5", "spoiler5", "spoiler5", "spoiler6">>)
RunsBecomeContainersWitness ==
    /\ GroupDone
    /\ nodes = FiveFiveFiveSix
    /\ Len(grouped) = 2
    /\ Len(grouped[1].spoilerChildren) = 3
    /\ grouped[2].spoilerChildren = <<nodes[4]>>

\* the output with every container replaced by its spoilerChildren
RECURSIVE Flatten(_)
Flatten(list) ==
    IF list = <<>> THEN <<>>
    ELSE (IF IsContainer(Head(list)) THEN Head(list).spoilerChildren
          ELSE <<Head(list)>>) \o Flatten(Tail(list))

\* C16 (runs are broken): the children of one container are spoilers, and
\* when there are several they share one numeric id and were adjacent in the
\* input; nodes that are not spoilers are in the output as they were; and the
\* output with the containers replaced by their children is the input
BrokenRunsStaySeparate ==
    GroupDone =>
        /\ Flatten(grouped) = nodes
        /\ \A k \in 1 .. Len(grouped) :
              IF IsContainer(grouped[k])
              THEN LET children == grouped[k].spoilerChildren
                   IN  /\ children # <<>>
                       /\ \A c \in 1 .. Len(children) :
                             /\ IsSpoilerNode(children[c])
                             /\ c > 1 =>
                                   /\ HasNumericId(children[c])
                                   /\ children[c].spoilerId
                                        = children[1].spoilerId
                                   /\ children[c].start
                                        = children[c - 1].start + 1
              ELSE /\ ~IsSpoilerNode(grouped[k])
                   /\ \E a \in 1 .. Len(nodes) : nodes[a] = grouped[k]
        /\ \A a \in 1 .. Len(nodes) :
              ~IsSpoilerNode(nodes[a]) =>
                  \E k \in 1 .. Len(grouped) : grouped[k] = nodes[a]

\* two spoilers of id 5 around a node that breaks the run
BrokenRunsWitness ==
    /\ GroupDone
    /\ Len(nodes) >= 3
    /\ HasNumericId(nodes[1])
    /\ nodes[3] = [nodes[1] EXCEPT !.start = 2]
    /\ ~SameRun(1, 2)
    /\ Len(grouped) >= 3

(***************************************************************************)
(* processBodyRangesForSearchResult                                        *)
(***************************************************************************)
MaxHighlights == 2   \* highlighted keywords in one snippet
MaxBodyRanges == 1   \* body ranges given to processBodyRangesForSearchResult

\* ts/util/search: the markers the full-text search puts into a snippet
SNIPPET_LEFT_PLACEHOLDER == <<"<", "<", "l", "e", "f", "t", ">", ">">>
SNIPPET_RIGHT_PLACEHOLDER == <<"<", "<", "r", "i", "g", "h", "t", ">", ">">>
SNIPPET_TRUNCATION_PLACEHOLDER ==
    <<"<", "<", "t", "r", "u", "n", "c", "a", "t", "i", "o", "n", ">", ">">>
TRUNCATION_CHAR == <<".", ".", ".">>

\* ts/util/assert: assertDev throws in a development build when the
\* condition is false and only logs in a production build
assertDevThrows(condition, isProduction) == ~condition /\ ~isProduction

\* pattern occurs in s at the 0-based index i
OccursAt(s, pattern, i) ==
    /\ i >= 0
    /\ i + Len(pattern) <= Len(s)
    /\ SubSeq(s, i + 1, i + Len(pattern)) = pattern

\* the index of the first occurrence at or after `from`, -1 when none
indexOf(s, pattern, from) ==
    LET found == {i \in from .. Len(s) - Len(pattern) : OccursAt(s, pattern, i)}
    IN  IF found = {} THEN -1
        ELSE CHOOSE i \in found : \A j \in found : i <= j

\* s.replace(new RegExp(pattern, 'g'), replacement), pattern a literal
RECURSIVE replaceAll(_, _, _)
replaceAll(s, pattern, replacement) ==
    LET i == indexOf(s, pattern, 0)
    IN  IF i = -1 THEN s
        ELSE SubSeq(s, 1, i) \o replacement
             \o replaceAll(SubSeq(s, i + Len(pattern) + 1, Len(s)),
                           pattern, replacement)

\* s.replace(TRUNCATION_START, replacement): the marker at the very start
replaceTruncationStart(s, replacement) ==
    IF OccursAt(s, SNIPPET_TRUNCATION_PLACEHOLDER, 0)
    THEN replacement
         \o SubSeq(s, Len(SNIPPET_TRUNCATION_PLACEHOLDER) + 1, Len(s))
    ELSE s

\* s.replace(TRUNCATION_END, replacement): the marker at the very end
replaceTruncationEnd(s, replacement) ==
    IF OccursAt(s, SNIPPET_TRUNCATION_PLACEHOLDER,
                Len(s) - Len(SNIPPET_TRUNCATION_PLACEHOLDER))
    THEN SubSeq(s, 1, Len(s) - Len(SNIPPET_TRUNCATION_PLACEHOLDER))
         \o replacement
    ELSE s

\* new RegExp(escapeRegExp(literal)).exec(s): null or a match with its index
exec(literal, s) ==
    LET i == indexOf(s, literal, 0)
    IN  IF i = -1 THEN Null ELSE [index |-> i]

\* const startOfSnippet = match ? match.index : 0
\* variant: a missing match counts as index -1
StartOfSnippet_MinusOne(match) == IF match # Null THEN match.index ELSE -1
StartOfSnippet(match) == IF match # Null THEN match.index ELSE 0

\* the filter callback: the range reaches into the snippet
IncludesSnippet(r, startOfSnippet, endOfSnippet) ==
    LET start == r.start
        end   == r.start + r.length
    IN  end > startOfSnippet /\ start < endOfSnippet

\* the map callback: the range in the coordinates of the cleaned snippet
\* variant: the translated range is not clipped to the snippet
AdjustRange_Unclipped(r, startOfSnippet, truncationDelta, snippetLength) ==
    [start |-> r.start - startOfSnippet + truncationDelta,
     length |-> r.length] @@ r
AdjustRange(r, startOfSnippet, truncationDelta, snippetLength) ==
    LET normalizedStart == r.start - startOfSnippet + truncationDelta
        start == Max(normalizedStart, truncationDelta)
        end   == Min(normalizedStart + r.length,
                     snippetLength + truncationDelta)
    IN  [start |-> start, length |-> end - start] @@ r

\* snippet.matchAll(/LEFT(.*?)RIGHT/dg) on a text without line terminators:
\* the indices of each whole match and of its group, from `from` on
RECURSIVE matchAll(_, _)
matchAll(s, from) ==
    LET i == indexOf(s, SNIPPET_LEFT_PLACEHOLDER, from)
        j == indexOf(s, SNIPPET_RIGHT_PLACEHOLDER,
                     i + Len(SNIPPET_LEFT_PLACEHOLDER))
    IN  IF i = -1 \/ j = -1 THEN <<>>
        ELSE <<[indices |-> <<
                   <<i, j + Len(SNIPPET_RIGHT_PLACEHOLDER)>>,
                   <<i + Len(SNIPPET_LEFT_PLACEHOLDER), j>> >>]>>
             \o matchAll(s, j + Len(SNIPPET_RIGHT_PLACEHOLDER))

\* the range pushed for one highlight match
\* variant: the markers removed so far are not subtracted
HighlightRange_NothingSkipped(highlightMatch, placeholderCharsSkipped, truncationDelta) ==
    [start |-> highlightMatch.indices[1][1]
               + (IF truncationDelta # 0
                  THEN Len(TRUNCATION_CHAR)
                       - Len(SNIPPET_TRUNCATION_PLACEHOLDER)
                  ELSE 0),
     length |-> highlightMatch.indices[2][2] - highlightMatch.indices[2][1],
     displayStyle |-> SearchKeywordHighlight]
HighlightRange(highlightMatch, placeholderCharsSkipped, truncationDelta) ==
    LET wholeMatchStartIdx == highlightMatch.indices[1][1]
        matchedWordStartIdx == highlightMatch.indices[2][1]
        matchedWordEndIdx == highlightMatch.indices[2][2]
    IN  [start |-> wholeMatchStartIdx - placeholderCharsSkipped
                   + (IF truncationDelta # 0
                      THEN Len(TRUNCATION_CHAR)
                           - Len(SNIPPET_TRUNCATION_PLACEHOLDER)
                      ELSE 0),
         length |-> matchedWordEndIdx - matchedWordStartIdx,
         displayStyle |-> SearchKeywordHighlight]

\* the for loop over the highlight matches
HighlightRanges(highlightMatches, truncationDelta) ==
    [k \in 1 .. Len(highlightMatches) |->
        HighlightRange(highlightMatches[k],
                       (k - 1) * (Len(SNIPPET_LEFT_PLACEHOLDER)
                                  + Len(SNIPPET_RIGHT_PLACEHOLDER)),
                       truncationDelta)]

SelectRanges(list, startOfSnippet, endOfSnippet) ==
    SelectSeq(list, LAMBDA r : IncludesSnippet(r, startOfSnippet, endOfSnippet))

processBodyRangesForSearchResult(snip, bdy, rngs, isProduction) ==
    LET cleanedSnippet ==
            replaceAll(replaceAll(snip, SNIPPET_LEFT_PLACEHOLDER, <<>>),
                       SNIPPET_RIGHT_PLACEHOLDER, <<>>)
        withNoStartTruncation == replaceTruncationStart(cleanedSnippet, <<>>)
        withNoEndTruncation == replaceTruncationEnd(withNoStartTruncation, <<>>)
        finalSnippet ==
            replaceTruncationEnd(
                replaceTruncationStart(cleanedSnippet, TRUNCATION_CHAR),
                TRUNCATION_CHAR)
        truncationDelta ==
            IF Len(withNoStartTruncation) # Len(cleanedSnippet)
            THEN Len(TRUNCATION_CHAR) ELSE 0
        match == exec(withNoEndTruncation, bdy)
        startOfSnippet == StartOfSnippet(match)
        endOfSnippet == startOfSnippet + Len(withNoEndTruncation)
        filteredBodyRanges == SelectRanges(rngs, startOfSnippet, endOfSnippet)
        adjustedBodyRanges ==
            [k \in 1 .. Len(filteredBodyRanges) |->
                AdjustRange(filteredBodyRanges[k], startOfSnippet,
                            truncationDelta, Len(withNoEndTruncation))]
    IN  IF assertDevThrows(match # Null, isProduction)
        THEN Throw("No match found")
        ELSE Return([cleanedSnippet |-> finalSnippet,
                     bodyRanges |->
                        adjustedBodyRanges
                        \o HighlightRanges(matchAll(snip, 0),
                                           truncationDelta)])

\* ---- the inputs: a body, the text the search index holds for it, and the
\* snippet the search makes of a window of that text
SearchBodies == {<<"a", "b", "c", "a">>, <<"b", "a", "b", "c">>}

\* the index holds the body as it is, or with its letters folded
Folded(bdy) == [k \in 1 .. Len(bdy) |-> IF bdy[k] = "c" THEN "C" ELSE bdy[k]]
IndexedTexts(bdy) == {bdy, Folded(bdy)}

\* the non-empty spans <<from, to>> inside [from, to)
Spans(from, to) == {p \in (from .. to) \X (from .. to) : p[1] < p[2]}

\* up to MaxHighlights keywords of the window, in order and disjoint
KeywordLists(from, to) ==
    {kws \in SeqsUpTo(Spans(from, to), MaxHighlights) :
        \A k \in 1 .. Len(kws) - 1 : kws[k][2] <= kws[k + 1][1]}

\* the window from `pos` on with each keyword between the two markers
RECURSIVE Marked(_, _, _, _)
Marked(txt, pos, to, kws) ==
    IF kws = <<>> THEN SubSeq(txt, pos + 1, to)
    ELSE SubSeq(txt, pos + 1, kws[1][1])
         \o SNIPPET_LEFT_PLACEHOLDER
         \o SubSeq(txt, kws[1][1] + 1, kws[1][2])
         \o SNIPPET_RIGHT_PLACEHOLDER
         \o Marked(txt, kws[1][2], to, Tail(kws))

\* the snippet the search returns for a source
SnippetOf(src) ==
    (IF src.leftTruncated THEN SNIPPET_TRUNCATION_PLACEHOLDER ELSE <<>>)
    \o Marked(src.indexed, src.from, src.to, src.keywords)
    \o (IF src.rightTruncated THEN SNIPPET_TRUNCATION_PLACEHOLDER ELSE <<>>)

\* the ranges of a body: bold over every span, a mention at every offset
RangesOver(bdy) ==
    {FormattingRange(p[1], p[2] - p[1], BOLD) : p \in Spans(0, Len(bdy))}
    \cup {MentionRange(s) : s \in 0 .. Len(bdy) - 1}

InitSnippet ==
    /\ body \in SearchBodies
    /\ \E indexed \in IndexedTexts(body), w \in Spans(0, Len(body)),
          lt \in BOOLEAN, rt \in BOOLEAN :
          \E kws \in KeywordLists(w[1], w[2]) :
              source = [indexed |-> indexed, from |-> w[1], to |-> w[2],
                        keywords |-> kws,
                        leftTruncated |-> lt, rightTruncated |-> rt]
    /\ snippet = SnippetOf(source)
    /\ bodyRanges \in SeqsUpTo(RangesOver(body), MaxBodyRanges)
    /\ production \in BOOLEAN
    /\ searchResult = <<>>
    /\ text = <<>>
    /\ TreeIdle /\ FilterIdle /\ ApplyIdle /\ GroupIdle /\ OthersIdle
    /\ pc = "snippet"

ProcessSnippet ==
    /\ pc = "snippet"
    /\ searchResult' =
          processBodyRangesForSearchResult(snippet, body, bodyRanges,
                                           production)
    /\ pc' = "processed"
    /\ UNCHANGED <<otherVars, treeVars, filterVars, applyVars, groupVars,
                   source, snippet, body, bodyRanges, production>>

NextSnippet == ProcessSnippet
SpecSnippet == InitSnippet /\ [][NextSnippet]_vars

SnippetDone == pc = "processed"
Returned == SnippetDone /\ ~searchResult.threw

\* what the search cut out of the indexed text, and where the body has it
WindowText == SubSeq(source.indexed, source.from + 1, source.to)
SnippetStart == indexOf(body, WindowText, 0)
SnippetEnd == SnippetStart + Len(WindowText)
SnippetFound == SnippetStart # -1
LeadingEllipsis == IF source.leftTruncated THEN Len(TRUNCATION_CHAR) ELSE 0
TrailingEllipsis == IF source.rightTruncated THEN Len(TRUNCATION_CHAR) ELSE 0

\* the input ranges that overlap [from, to), in their order
Overlapping(from, to) ==
    SelectSeq(bodyRanges,
              LAMBDA r : r.start < to /\ r.start + r.length > from)

\* the returned ranges that are not highlights, and the highlights
TranslatedRanges ==
    SelectSeq(searchResult.value.bodyRanges, LAMBDA r : ~isDisplayOnly(r))
SynthesizedHighlights ==
    SelectSeq(searchResult.value.bodyRanges, LAMBDA r : isDisplayOnly(r))
Covered(str, r) == SubSeq(str, r.start + 1, r.start + r.length)

\* C18 (ranges of a snippet): when the snippet is found in the body, the
\* returned ranges that are not highlights are the input ranges overlapping
\* [SnippetStart, SnippetEnd), each with its other properties unchanged,
\* covering in the cleaned snippet the text its original covers inside that
\* window of the body, and lying between the two ellipses
RangesTranslatedAndClipped ==
    (Returned /\ SnippetFound) =>
        LET overlapping == Overlapping(SnippetStart, SnippetEnd)
            cleaned     == searchResult.value.cleanedSnippet
        IN  /\ Len(TranslatedRanges) = Len(overlapping)
            /\ \A k \in 1 .. Len(overlapping) :
                  LET t == TranslatedRanges[k]
                      r == overlapping[k]
                  IN  /\ omit(t, {"start", "length"})
                           = omit(r, {"start", "length"})
                      /\ t.length > 0
                      /\ t.start >= LeadingEllipsis
                      /\ t.start + t.length
                           <= Len(cleaned) - TrailingEllipsis
                      /\ Covered(cleaned, t)
                           = SubSeq(body, Max(r.start, SnippetStart) + 1,
                                    Min(r.start + r.length, SnippetEnd))

\* a range reaching over both ends of a window truncated on both sides, and
\* a second range that does not reach it
RangesTranslatedWitness ==
    /\ Returned /\ SnippetFound
    /\ source.leftTruncated /\ source.rightTruncated
    /\ \E k \in 1 .. Len(bodyRanges) :
          /\ bodyRanges[k].start < SnippetStart
          /\ bodyRanges[k].start + bodyRanges[k].length > SnippetEnd
    /\ Len(TranslatedRanges) = 1

\* C19 (highlights of a snippet): the returned snippet is the window with
\* "..." for each truncation marker, and the returned highlights are one per
\* keyword of the raw snippet, in order, each at the place of its keyword in
\* the returned snippet and covering that keyword
HighlightsCoverKeywords ==
    Returned =>
        LET cleaned == searchResult.value.cleanedSnippet
        IN  /\ cleaned
                 = (IF source.leftTruncated THEN TRUNCATION_CHAR ELSE <<>>)
                   \o WindowText
                   \o (IF source.rightTruncated THEN TRUNCATION_CHAR ELSE <<>>)
            /\ Len(SynthesizedHighlights) = Len(source.keywords)
            /\ \A k \in 1 .. Len(source.keywords) :
                  LET h  == SynthesizedHighlights[k]
                      kw == source.keywords[k]
                  IN  /\ h.displayStyle = SearchKeywordHighlight
                      /\ h.start = LeadingEllipsis + kw[1] - source.from
                      /\ h.length = kw[2] - kw[1]
                      /\ Covered(cleaned, h)
                           = SubSeq(source.indexed, kw[1] + 1, kw[2])

\* two keywords in a snippet truncated on the left
HighlightsWitness ==
    /\ Returned
    /\ source.leftTruncated
    /\ Len(source.keywords) = 2
    /\ Len(SynthesizedHighlights) = 2

\* C20 (snippet not found): in a production build a snippet whose text does
\* not occur in the body raises no error; the cleaned snippet is returned and
\* the ranges are those overlapping [0, length of the snippet text),
\* translated as for a snippet that starts at offset 0 of the body
MissingSnippetStartsAtZero ==
    (SnippetDone /\ production /\ ~SnippetFound) =>
        /\ ~searchResult.threw
        /\ LET overlapping == Overlapping(0, Len(WindowText))
           IN  /\ Len(TranslatedRanges) = Len(overlapping)
               /\ \A k \in 1 .. Len(overlapping) :
                     /\ TranslatedRanges[k].start
                          = overlapping[k].start + LeadingEllipsis
                     /\ TranslatedRanges[k].start + TranslatedRanges[k].length
                          = LeadingEllipsis
                            + Min(overlapping[k].start + overlapping[k].length,
                                  Len(WindowText))
        /\ Len(searchResult.value.cleanedSnippet)
             = LeadingEllipsis + Len(WindowText) + TrailingEllipsis

\* a production run on a snippet that is not in the body, with a range overlapping
MissingSnippetWitness ==
    /\ SnippetDone /\ production /\ ~SnippetFound
    /\ ~searchResult.threw
    /\ Len(TranslatedRanges) = 1

\* in a development build the same input raises the assertion's error
MissingSnippetThrowsInDevelopment ==
    SnippetDone => (searchResult.threw <=> (~production /\ ~SnippetFound))

(***************************************************************************)
(* NotificationService (ts/services/notifications.ts)                      *)
(*                                                                         *)
(* A text shown to the user is a sequence of words here.  A Notification   *)
(* object is a record [id]; openNotifications holds those that were        *)
(* created and not closed.  The sound and the attention request of an      *)
(* update change nothing the service reads and are left out.               *)
(***************************************************************************)
\* enum NotificationSetting
Off == "off"
NoNameOrMessage == "count"
NameOnly == "name"
NameAndMessage == "message"
NotificationSetting == {Off, NoNameOrMessage, NameOnly, NameAndMessage}

FALLBACK_NOTIFICATION_TITLE == <<"Signal">>

\* ts/util/enum makeEnumParser(NotificationSetting, NameAndMessage): the
\* stored value when it is one of the enum's, the default otherwise
parseNotificationSetting(value) ==
    IF value.type = "string" /\ value.value \in NotificationSetting
    THEN value.value
    ELSE NameAndMessage

\* the localizer: the words of a message of _locales with its parameters
i18n(key, params) ==
    IF key = "icu:newMessage" THEN <<"New", "Message">>
    ELSE IF key = "icu:notificationReaction"
    THEN params.sender \o <<"reacted">> \o <<params.emoji>> \o <<"to", "your", "message">>
    ELSE params.sender \o <<"reacted">> \o <<params.emoji>> \o <<"to:">> \o params.message

\* ts/types/Settings shouldHideExpiringMessageBody(OS, os.release())
shouldHideExpiringMessageBody(os) == os.hidesExpiringBody

\* the smallest id no live Notification has
NewNotification(open, last) ==
    LET used == {n.id : n \in open} \cup (IF last = Null THEN {} ELSE {last.id})
    IN  [id |-> CHOOSE k \in 1 .. Cardinality(used) + 1 :
                    k \notin used /\ \A j \in 1 .. k - 1 : j \in used]

\* this.lastNotification?.close() of notify
\* variant: the previous notification is left open
CloseLast_LeftOpen(open, last) == open
CloseLast(open, last) == IF last = Null THEN open ELSE open \ {last}

\* notify: the fields of the service after the call
notify(svc, os) ==
    IF os.isWindows THEN svc
    ELSE LET closed == CloseLast(svc.openNotifications, svc.lastNotification)
             notification == NewNotification(closed, svc.lastNotification)
         IN  [svc EXCEPT !.openNotifications = closed \cup {notification},
                         !.lastNotification = notification]

\* what removeBy does: "nothing" or "clear"
removeBy(data, args) ==
    IF data = Null THEN "nothing"
    ELSE LET byConversation == /\ Truthy(args.conversationId)
                               /\ data.conversationId = args.conversationId
             byMessage == /\ Truthy(args.messageId)
                          /\ data.messageId = args.messageId
             shouldClear == byConversation \/ byMessage
         IN  IF ~shouldClear THEN "nothing"
             ELSE IF /\ "reaction" \in DOMAIN data
                     /\ Truthy(args.emoji)
                     /\ Truthy(args.targetAuthorUuid)
                     /\ Truthy(args.targetTimestamp)
                     /\ \/ data.reaction.emoji # args.emoji
                        \/ data.reaction.targetAuthorUuid
                             # args.targetAuthorUuid
                        \/ data.reaction.targetTimestamp
                             # args.targetTimestamp
             THEN "nothing"
             ELSE "clear"

\* the message of the notification under NameOnly and NameAndMessage
\* variant: NameOnly shows the message like NameAndMessage
NotificationMessage_NameOnlyIgnored(data, userSetting, os) ==
    IF data.isExpiringMessage /\ shouldHideExpiringMessageBody(os)
    THEN i18n("icu:newMessage", <<>>)
    ELSE IF "storyId" \in DOMAIN data THEN data.message
    ELSE IF "reaction" \in DOMAIN data
    THEN i18n("icu:notificationReactionMessage",
              [sender |-> data.senderTitle, emoji |-> data.reaction.emoji.value,
               message |-> data.message])
    ELSE data.message
NotificationMessage(data, userSetting, os) ==
    IF data.isExpiringMessage /\ shouldHideExpiringMessageBody(os)
    THEN i18n("icu:newMessage", <<>>)
    ELSE IF userSetting = NameOnly
    THEN IF "reaction" \in DOMAIN data
         THEN i18n("icu:notificationReaction",
                   [sender |-> data.senderTitle,
                    emoji |-> data.reaction.emoji.value])
         ELSE i18n("icu:newMessage", <<>>)
    ELSE IF "storyId" \in DOMAIN data THEN data.message
    ELSE IF "reaction" \in DOMAIN data
    THEN i18n("icu:notificationReactionMessage",
              [sender |-> data.senderTitle, emoji |-> data.reaction.emoji.value,
               message |-> data.message])
    ELSE data.message

\* the switch on userSetting: the title and message to show, Null for Off
NotificationContent(data, userSetting, os) ==
    IF userSetting = Off THEN Null
    ELSE IF userSetting \in {NameOnly, NameAndMessage}
    THEN [title |-> data.senderTitle,
          message |-> NotificationMessage(data, userSetting, os)]
    ELSE [title |-> FALLBACK_NOTIFICATION_TITLE,
          message |-> i18n("icu:newMessage", <<>>)]

\* the first statement of fastUpdate that changes the service: the last
\* notification is closed and forgotten (nothing of it on Windows)
CloseForUpdate(svc, os) ==
    IF os.isWindows \/ svc.lastNotification = Null THEN svc
    ELSE [svc EXCEPT !.openNotifications = @ \ {svc.lastNotification},
                     !.lastNotification = Null]

\* shouldShowNotification
\* variant: a disabled service shows too
ShouldShowNotification_WhenDisabled(svc, isAppFocused) ==
    ~isAppFocused /\ svc.notificationData # Null
ShouldShowNotification(svc, isAppFocused) ==
    svc.isEnabled /\ ~isAppFocused /\ svc.notificationData # Null

\* wasShown of the notification data
\* variant: the mark is not looked at
WasShown_Ignored(data) == FALSE
WasShown(data) == "wasShown" \in DOMAIN data /\ data.wasShown

\* fastUpdate: the fields of the service after the call; notify is the
\* argument of its notify call, Null when it makes none
fastUpdate(svc0, isAppFocused, setting, os) ==
    LET svc == CloseForUpdate(svc0, os)
        data == svc.notificationData
        userSetting == parseNotificationSetting(setting)
        silently == [svc EXCEPT !.notify = Null]
    IN  IF ~ShouldShowNotification(svc, isAppFocused)
        THEN IF isAppFocused
             THEN [silently EXCEPT !.notificationData = Null]
             ELSE silently
        ELSE IF WasShown(data) THEN silently
        ELSE IF userSetting = Off THEN silently
        ELSE LET content ==
                     NotificationContent(data, userSetting, os)
                 args == [conversationId |-> data.conversationId,
                          messageId |-> data.messageId,
                          message |-> content.message,
                          title |-> content.title,
                          type |-> data.type]
                 marked == [svc EXCEPT !.notificationData =
                               [wasShown |-> TRUE] @@ data]
             IN  [notify(marked, os) EXCEPT !.notify = args]

\* the fields of the service as one record
Service ==
    [isEnabled |-> isEnabled, lastNotification |-> lastNotification,
     notificationData |-> notificationData,
     openNotifications |-> openNotifications, notify |-> Null]

\* the service takes the fields of svc; a notify call of an update is counted
Becomes(svc) ==
    /\ isEnabled' = svc.isEnabled
    /\ lastNotification' = svc.lastNotification
    /\ notificationData' = svc.notificationData
    /\ openNotifications' = svc.openNotifications
    /\ notified' = IF svc.notify = Null THEN notified ELSE svc.notify
    /\ shownSinceAdd' =
          IF svc.notify = Null THEN shownSinceAdd ELSE shownSinceAdd + 1

\* ---- the inputs
Alice == <<"Alice">>
MessageTexts == {<<"see", "you", "at", "noon">>, <<"secret">>}
ThumbsUp == [emoji |-> Str("+1"), targetAuthorUuid |-> Str("author-1"),
             targetTimestamp |-> Num(1)]
Heart == [emoji |-> Str("<3"), targetAuthorUuid |-> Str("author-1"),
          targetTimestamp |-> Num(1)]
MessageData(conversationId, messageId, message, isExpiringMessage) ==
    [conversationId |-> Str(conversationId), messageId |-> Str(messageId),
     message |-> message, isExpiringMessage |-> isExpiringMessage,
     senderTitle |-> Alice, type |-> "Message"]
NotificationDatas ==
    {MessageData("c1", "m1", <<"see", "you", "at", "noon">>, FALSE),
     MessageData("c1", "m2", <<"secret">>, TRUE),
     [reaction |-> ThumbsUp, type |-> "Reaction"]
        @@ MessageData("c2", "m1", <<"secret">>, FALSE),
     [reaction |-> Heart, type |-> "Reaction"]
        @@ MessageData("c1", "m1", <<"see", "you", "at", "noon">>, FALSE),
     [reaction |-> Heart, storyId |-> "story-1", type |-> "Reaction"]
        @@ MessageData("c2", "m2", <<"secret">>, FALSE)}

RemoveByArgs ==
    [conversationId : {Undefined, Str("c1"), Str("c2")},
     messageId : {Undefined, Str("m1")},
     emoji : {Undefined, Str("+1"), Str("<3")},
     targetAuthorUuid : {Undefined, Str("author-1")},
     targetTimestamp : {Undefined, Num(1)}]

\* an incoming call rings through notify, without add
CallNotification ==
    [conversationId |-> Str("c1"), messageId |-> Undefined,
     message |-> <<"Incoming", "call">>, title |-> Alice,
     type |-> "IncomingCall"]

StoredSettings ==
    {Str(Off), Str(NoNameOrMessage), Str(NameOnly), Str(NameAndMessage),
     Undefined}
Platforms == [isWindows : BOOLEAN, hidesExpiringBody : BOOLEAN]

InitService ==
    /\ isEnabled = FALSE
    /\ lastNotification = Null
    /\ notificationData = Null
    /\ updatePending = FALSE
    /\ isActive \in BOOLEAN
    /\ notificationSetting \in StoredSettings
    /\ platform \in Platforms
    /\ openNotifications = {}
    /\ notified = Null
    /\ shownSinceAdd = 0
    /\ text = <<>>
    /\ TreeIdle /\ FilterIdle /\ ApplyIdle /\ GroupIdle /\ SnippetIdle
    /\ KeysIdle
    /\ pc = "service"

ServiceFrame == UNCHANGED <<bodyRangeVars, keysVars, pc, platform>>

\* add(notificationData)
Add(data) ==
    /\ pc = "service"
    /\ notificationData' = data
    /\ updatePending' = TRUE
    /\ shownSinceAdd' = 0
    /\ ServiceFrame
    /\ UNCHANGED <<isEnabled, lastNotification, isActive, notificationSetting,
                   openNotifications, notified>>

\* notify(args) called from outside the service
Notify(args) ==
    /\ pc = "service"
    /\ LET svc == notify(Service, platform)
       IN  /\ lastNotification' = svc.lastNotification
           /\ openNotifications' = svc.openNotifications
    /\ notified' = args
    /\ ServiceFrame
    /\ UNCHANGED <<isEnabled, notificationData, updatePending, isActive,
                   notificationSetting, shownSinceAdd>>

\* clear()
Clear ==
    /\ pc = "service"
    /\ notificationData' = Null
    /\ updatePending' = TRUE
    /\ ServiceFrame
    /\ UNCHANGED <<isEnabled, lastNotification, isActive, notificationSetting,
                   openNotifications, notified, shownSinceAdd>>

\* removeBy(args): clear() and update() when the stored notification matches
RemoveBy(args) ==
    /\ pc = "service"
    /\ IF removeBy(notificationData, args) = "clear"
       THEN notificationData' = Null /\ updatePending' = TRUE
       ELSE UNCHANGED <<notificationData, updatePending>>
    /\ ServiceFrame
    /\ UNCHANGED <<isEnabled, lastNotification, isActive, notificationSetting,
                   openNotifications, notified, shownSinceAdd>>

\* the debounced update runs fastUpdate
Update ==
    /\ pc = "service"
    /\ updatePending
    /\ updatePending' = FALSE
    /\ Becomes(fastUpdate(Service, isActive, notificationSetting, platform))
    /\ ServiceFrame
    /\ UNCHANGED <<isActive, notificationSetting>>

\* fastClear()
FastClear ==
    /\ pc = "service"
    /\ Becomes(fastUpdate([Service EXCEPT !.notificationData = Null],
                          isActive, notificationSetting, platform))
    /\ ServiceFrame
    /\ UNCHANGED <<updatePending, isActive, notificationSetting>>

\* const needUpdate = !this.isEnabled
\* variant: enable never asks for an update
NeedUpdate_Never(enabled) == FALSE
NeedUpdate(enabled) == ~enabled

\* enable()
Enable ==
    /\ pc = "service"
    /\ isEnabled' = TRUE
    /\ updatePending' = (updatePending \/ NeedUpdate(isEnabled))
    /\ ServiceFrame
    /\ UNCHANGED <<lastNotification, notificationData, isActive,
                   notificationSetting, openNotifications, notified,
                   shownSinceAdd>>

\* disable()
Disable ==
    /\ pc = "service"
    /\ isEnabled' = FALSE
    /\ ServiceFrame
    /\ UNCHANGED <<lastNotification, notificationData, updatePending, isActive,
                   notificationSetting, openNotifications, notified,
                   shownSinceAdd>>

\* the window gains or loses focus
SetActive ==
    /\ pc = "service"
    /\ isActive' = ~isActive
    /\ ServiceFrame
    /\ UNCHANGED <<isEnabled, lastNotification, notificationData,
                   updatePending, notificationSetting, openNotifications,
                   notified, shownSinceAdd>>

\* the user changes the notification setting
SetNotificationSetting(value) ==
    /\ pc = "service"
    /\ value # notificationSetting
    /\ notificationSetting' = value
    /\ ServiceFrame
    /\ UNCHANGED <<isEnabled, lastNotification, notificationData,
                   updatePending, isActive, openNotifications, notified,
                   shownSinceAdd>>

NextService ==
    \/ \E data \in NotificationDatas : Add(data)
    \/ Notify(CallNotification)
    \/ Clear
    \/ \E args \in RemoveByArgs : RemoveBy(args)
    \/ Update
    \/ FastClear
    \/ Enable
    \/ Disable
    \/ SetActive
    \/ \E value \in StoredSettings : SetNotificationSetting(value)
SpecService == InitService /\ [][NextService]_vars

ServiceRunning == pc = "service"

\* the two conditions under which removeBy is to clear the notification
IdMatches(data, args) ==
    \/ args.conversationId # Undefined
       /\ args.conversationId = data.conversationId
    \/ args.messageId # Undefined /\ args.messageId = data.messageId
ReactionMatches(data, args) ==
    "reaction" \in DOMAIN data =>
        \A f \in {"emoji", "targetAuthorUuid", "targetTimestamp"} :
            args[f] # Undefined => args[f] = data.reaction[f]

\* C21 (removeBy): whatever it is called with, removeBy clears the stored
\* notification exactly when a supplied conversationId or messageId is the
\* stored one and every supplied reaction field is that of the stored
\* reaction; with nothing stored it clears nothing
RemoveByClearsOnMatch ==
    ServiceRunning =>
        \A args \in RemoveByArgs :
            removeBy(notificationData, args) = "clear"
                <=> /\ notificationData # Null
                    /\ IdMatches(notificationData, args)
                    /\ ReactionMatches(notificationData, args)

\* the same when the three reaction fields come together or not at all
ReactionGivenWhole(args) ==
    \/ args.emoji = Undefined /\ args.targetAuthorUuid = Undefined
       /\ args.targetTimestamp = Undefined
    \/ args.emoji # Undefined /\ args.targetAuthorUuid # Undefined
       /\ args.targetTimestamp # Undefined
RemoveByClearsOnWholeMatch ==
    ServiceRunning =>
        \A args \in {a \in RemoveByArgs : ReactionGivenWhole(a)} :
            removeBy(notificationData, args) = "clear"
                <=> /\ notificationData # Null
                    /\ IdMatches(notificationData, args)
                    /\ ReactionMatches(notificationData, args)

\* C22 (single notification slot): whatever is called and in whatever
\* order, at most one Notification of the service is open, and it is the one
\* lastNotification refers to: the one before it was closed first
SingleNotificationSlot ==
    ServiceRunning =>
        /\ Cardinality(openNotifications) <= 1
        /\ \A n \in openNotifications : n = lastNotification

\* a second Notification has replaced the first on a platform that is not
\* Windows
SingleNotificationSlotWitness ==
    /\ ServiceRunning
    /\ ~platform.isWindows
    /\ lastNotification # Null
    /\ lastNotification.id = 2
    /\ openNotifications = {lastNotification}
    /\ shownSinceAdd = 1

(***************************************************************************)
(* Formatting of the collapsed tree                                        *)
(***************************************************************************)
TreeCollapsed == pc = "collapsed"

\* the property rangeToPartialNode sets for a style
StyleFlag(style) ==
    IF style = BOLD THEN "isBold"
    ELSE IF style = ITALIC THEN "isItalic"
    ELSE IF style = MONOSPACE THEN "isMonospace"
    ELSE IF style = SPOILER THEN "isSpoiler"
    ELSE "isStrikethrough"
StyleFlags == {StyleFlag(st) : st \in {BOLD, ITALIC, MONOSPACE, SPOILER,
                                       STRIKETHROUGH}}

\* the segments of the collapsed tree that hold the character at offset p
SegmentsAt(p) ==
    {k \in 1 .. Len(collapsed) :
        collapsed[k].start <= p
        /\ p < collapsed[k].start + collapsed[k].length}
HasFlag(node, flag) == flag \in DOMAIN node /\ node[flag]
CoversOffset(r, p) == r.start <= p /\ p < r.start + r.length
InsertedFormatting ==
    {k \in 1 .. Len(inserted) : isFormatting(inserted[k])}

\* C23 (formatting next to mentions): every character covered by an inserted
\* formatting range is in a segment with the flag of the range's style,
\* whatever the order in which mentions and formatting ranges were inserted
FormattingReachesEveryCharacter ==
    TreeCollapsed =>
        \A k \in InsertedFormatting :
            \A p \in 0 .. Len(text) - 1 :
                CoversOffset(inserted[k], p) =>
                    /\ SegmentsAt(p) # {}
                    /\ \A sg \in SegmentsAt(p) :
                          HasFlag(collapsed[sg], StyleFlag(inserted[k].style))

\* the same when no formatting range was inserted over a mention that was
\* already in the tree
NoFormattingOverEarlierMention ==
    \A m, k \in 1 .. Len(inserted) :
        (m < k /\ isMention(inserted[m]) /\ isFormatting(inserted[k]))
            => ~CoversOffset(inserted[k], inserted[m].start)
FormattingReachesWhenMentionsLast ==
    (TreeCollapsed /\ NoFormattingOverEarlierMention) =>
        \A k \in InsertedFormatting :
            \A p \in 0 .. Len(text) - 1 :
                CoversOffset(inserted[k], p) =>
                    /\ SegmentsAt(p) # {}
                    /\ \A sg \in SegmentsAt(p) :
                          HasFlag(collapsed[sg], StyleFlag(inserted[k].style))

MaxFormats == 3   \* formatting ranges inserted in one run of SpecFormat

\* the formatting ranges over a text: four styles over every non-empty span
Abc == <<"a", "b", "c">>
FormattingRanges(txt) ==
    {FormattingRange(sp[1], sp[2] - sp[1], st) :
        sp \in Spans(0, Len(txt)),
        st \in {BOLD, ITALIC, MONOSPACE, STRIKETHROUGH}}

InitFormat ==
    /\ text = Abc
    /\ TreeIdle /\ FilterIdle /\ ApplyIdle /\ GroupIdle /\ SnippetIdle
    /\ OthersIdle
    /\ pc = "format"

\* tree = insertRange(r, tree) for a formatting range r
InsertFormatting ==
    /\ pc = "format"
    /\ Len(inserted) < MaxFormats
    /\ \E r \in FormattingRanges(text) :
         LET result == insertRange(r, tree) IN
         /\ range' = r
         /\ rangeTree' = tree
         /\ inserted' = Append(inserted, r)
         /\ IF result.threw
            THEN error' = result.message /\ pc' = "thrown" /\ tree' = tree
            ELSE error' = error /\ pc' = pc /\ tree' = result.value
    /\ UNCHANGED <<otherVars, groupVars, snippetVars, text, collapsed,
                   filterVars, applyVars>>

\* collapsed = collapseRangeTree({ text, tree })
CollapseFormatting ==
    /\ pc = "format"
    /\ collapsed' = collapseRangeTree(EmptyObject, 0, text, tree)
    /\ pc' = "formatted"
    /\ UNCHANGED <<otherVars, groupVars, snippetVars, text, tree, range,
                   rangeTree, inserted, error, filterVars, applyVars>>

NextFormat == InsertFormatting \/ CollapseFormatting
SpecFormat == InitFormat /\ [][NextFormat]_vars

FormatCollapsed == pc = "formatted"

\* the formatting flags of the segment that holds the character at offset p
FlagsAt(p) ==
    {flag \in StyleFlags : \E sg \in SegmentsAt(p) : HasFlag(collapsed[sg], flag)}
\* the flags of the styles of the inserted ranges that cover offset p
FlagsOver(p) ==
    {StyleFlag(inserted[k].style) :
        k \in {j \in 1 .. Len(inserted) : CoversOffset(inserted[j], p)}}

\* C24 (insertion order): the formatting flags of every character are those
\* of the styles of the inserted ranges that cover it, so every order of
\* inserting the same ranges gives every character the same flags
FlagsIndependentOfOrder ==
    FormatCollapsed =>
        \A p \in 0 .. Len(text) - 1 :
            /\ Cardinality(SegmentsAt(p)) = 1
            /\ FlagsAt(p) = FlagsOver(p)

\* three ranges of three styles that overlap each other in part
FlagsIndependentWitness ==
    /\ FormatCollapsed
    /\ Len(inserted) = 3
    /\ inserted[1] = FormattingRange(1, 2, BOLD)
    /\ inserted[2] = FormattingRange(0, 2, ITALIC)
    /\ inserted[3] = FormattingRange(0, 3, MONOSPACE)
    /\ FlagsAt(1) = {"isBold", "isItalic", "isMonospace"}
    /\ FlagsAt(0) = {"isItalic", "isMonospace"}

\* the stored notification data carries wasShown: true
MarkedShown ==
    "wasShown" \in DOMAIN notificationData /\ notificationData.wasShown

\* C25 (shown once): between one add and the next, the updates of the
\* service call notify at most once, and once they have, the stored data is
\* gone or carries wasShown
ShownAtMostOncePerAdd ==
    ServiceRunning =>
        /\ shownSinceAdd <= 1
        /\ shownSinceAdd = 1 =>
              notificationData = Null \/ MarkedShown

\* the notification was shown, and a later update of the enabled, unfocused
\* service has closed it and shown nothing
ShownAtMostOnceWitness ==
    /\ ServiceRunning
    /\ shownSinceAdd = 1
    /\ notificationData # Null
    /\ MarkedShown
    /\ isEnabled /\ ~isActive /\ ~updatePending
    /\ parseNotificationSetting(notificationSetting) # Off
    /\ ~platform.isWindows
    /\ lastNotification = Null
    /\ notified # CallNotification

\* the step calls notify from fastUpdate
ShowsNotification == shownSinceAdd' = shownSinceAdd + 1

\* C26 (no notification when suppressed): an update of a disabled service,
\* of a focused app, without notification data or with the setting Off
\* calls notify never; the update of a focused app discards the data, that of
\* an unfocused app with the service disabled keeps it
NeverShownWhenSuppressed ==
    [][/\ Update =>
            /\ (\/ ~isEnabled
                \/ isActive
                \/ notificationData = Null
                \/ parseNotificationSetting(notificationSetting) = Off)
                   => (~ShowsNotification /\ notified' = notified)
            /\ isActive => notificationData' = Null
            /\ (~isEnabled /\ ~isActive)
                   => notificationData' = notificationData
       /\ FastClear => (~ShowsNotification /\ notified' = notified)]_vars

\* an update has run on a disabled service with the app unfocused: the data
\* is still there and was not shown
NeverShownWitness ==
    /\ ServiceRunning
    /\ ~isEnabled /\ ~isActive /\ ~updatePending
    /\ notificationData # Null
    /\ ~MarkedShown
    /\ shownSinceAdd = 0

\* the words of `part` stand next to each other in `whole`
ContainsText(whole, part) == indexOf(whole, part, 0) # -1
NewMessageText == <<"New", "Message">>

\* C27 (privacy of the content): when an update shows the stored
\* notification, with NoNameOrMessage the title is "Signal" and the message
\* the new-message text; with NameOnly the message does not contain the
\* stored message text; and the stored message text is in the message only
\* with NameAndMessage and not for an expiring message whose body is hidden
ContentRespectsSetting ==
    [][(Update /\ ShowsNotification) =>
          LET userSetting == parseNotificationSetting(notificationSetting)
              hidden == /\ notificationData.isExpiringMessage
                        /\ shouldHideExpiringMessageBody(platform)
              shown == notified'
          IN  /\ userSetting = NoNameOrMessage =>
                    /\ shown.title = FALLBACK_NOTIFICATION_TITLE
                    /\ shown.message = NewMessageText
              /\ userSetting = NameOnly =>
                    ~ContainsText(shown.message, notificationData.message)
              /\ ContainsText(shown.message, notificationData.message) =>
                    (userSetting = NameAndMessage /\ ~hidden)
              /\ ~ContainsText(shown.title, notificationData.message)]_vars

\* a reaction was shown under NameOnly: the sender and the emoji, no text
ContentRespectsSettingWitness ==
    /\ ServiceRunning
    /\ notificationData # Null
    /\ MarkedShown
    /\ shownSinceAdd = 1
    /\ "reaction" \in DOMAIN notificationData
    /\ parseNotificationSetting(notificationSetting) = NameOnly
    /\ notified # Null
    /\ notified.title = Alice
    /\ notified.message = <<"Alice", "reacted", "<3", "to", "your", "message">>

\* ---- a notification added while the service is disabled: add is called
\* on a disabled service with the app unfocused, nothing clears the
\* notification, and the debounced update runs once it has been requested
AddWhileDisabled(data) == ~isEnabled /\ ~isActive /\ Add(data)
NextServiceLive ==
    \/ \E data \in NotificationDatas : AddWhileDisabled(data)
    \/ Update
    \/ Enable
    \/ Disable
    \/ SetActive
    \/ \E value \in StoredSettings : SetNotificationSetting(value)
SpecServiceLive ==
    InitService /\ [][NextServiceLive]_vars /\ WF_vars(Update)

\* the service was enabled with d stored and not shown, the app unfocused
\* and the setting not Off, and the update it asked for has not run yet
EnabledWith(d) ==
    /\ ServiceRunning
    /\ notificationData = d
    /\ isEnabled /\ ~isActive /\ updatePending
    /\ parseNotificationSetting(notificationSetting) # Off
ShownFor(d) ==
    /\ notificationData = [wasShown |-> TRUE] @@ d
    /\ notified # Null /\ notified.messageId = d.messageId
ReplacedBy(d) ==
    /\ notificationData # Null
    /\ notificationData # d
    /\ notificationData # [wasShown |-> TRUE] @@ d

\* C28 as stated: once the service is enabled with d pending, notify is
\* eventually called for d unless another add comes first
EnabledAlwaysShows ==
    \A d \in NotificationDatas :
        EnabledWith(d) ~> (ShownFor(d) \/ ReplacedBy(d))

\* C28 (added while disabled): an update of a disabled service with the
\* app unfocused keeps the stored data; enable asks for an update exactly
\* when the service was disabled; and once the service is enabled with d
\* pending, notify is eventually called for d unless, before the update
\* runs, another add comes, the app is focused, the service is disabled
\* again or the setting becomes Off
EnabledShowsUnlessSuppressed ==
    /\ [][(Update /\ ~isEnabled /\ ~isActive)
              => notificationData' = notificationData]_vars
    /\ [][(isEnabled' /\ ~isEnabled) => updatePending']_vars
    /\ [][(isEnabled' /\ isEnabled /\ ~updatePending) => ~updatePending']_vars
    /\ \A d \in NotificationDatas :
          EnabledWith(d) ~>
              \/ ShownFor(d)
              \/ ReplacedBy(d)
              \/ isActive
              \/ ~isEnabled
              \/ parseNotificationSetting(notificationSetting) = Off

\* a notification added while disabled was shown after enable
EnabledShowsWitness ==
    /\ ServiceRunning
    /\ isEnabled /\ ~isActive /\ ~updatePending
    /\ shownSinceAdd = 1
    /\ \E d \in NotificationDatas : ShownFor(d)

(***************************************************************************)
(* getKeysForIdentifier (ts/textsecure/getKeysForIdentifier.ts)            *)
(*                                                                         *)
(* An error object is a record with a name; a thrown primitive is a value  *)
(* of Str.  endpointCalls is the list of the server calls made, each with  *)
(* the endpoint and, once the server has answered, its response.           *)
(***************************************************************************)
MaxDevices == 2   \* devices in the keys the server returns

\* ts/textsecure/Errors
HTTPError(code) == [name |-> "HTTPError", code |-> Num(code)]
UnregisteredUserError(id, httpError) ==
    [name |-> "UnregisteredUserError", identifier |-> id,
     code |-> httpError.code, httpError |-> httpError]
OutgoingIdentityKeyError(id, originalError) ==
    [name |-> "OutgoingIdentityKeyError", identifier |-> id,
     originalError |-> originalError]

\* ts/util/isRecord: the value is an object
isRecord(value) == "type" \notin DOMAIN value

\* ts/types/UUID UUID.lookup: the UUID of an identifier, undefined when the
\* identifier is not a UUID and no conversation has it
lookup(id) ==
    IF id = "uuid-1" THEN Str("uuid-1")
    ELSE IF id = "+15550002" THEN Str("uuid-2")
    ELSE Undefined

Resolved(value) == [threw |-> FALSE, value |-> value]
Rejected(err) == [threw |-> TRUE, error |-> err]

AUTH == "getKeysForIdentifier"
UNAUTH == "getKeysForIdentifierUnauth"
Pending == [type |-> "pending"]

\* the test of the catch clause of getServerKeys
\* variant: every failure of the unauthenticated call falls back
AccessKeyFailure_AnyError(key, err) == Truthy(key)
AccessKeyFailure(key, err) ==
    /\ Truthy(key)
    /\ isRecord(err)
    /\ "code" \in DOMAIN err /\ err.code.type = "number"
    /\ (err.code = Num(401) \/ err.code = Num(403))

\* the test of the catch clause of getKeysForIdentifier
\* variant: the class of the error is not tested
IsNotFound_AnyClass(err) ==
    /\ isRecord(err) /\ "code" \in DOMAIN err
    /\ err.code.type = "number" /\ err.code = Num(404)
IsNotFound(err) ==
    /\ isRecord(err) /\ err.name = "HTTPError"
    /\ err.code = Num(404)

\* handleServerKeys: the devices whose keys are looked at
Considered(response, toUpdate) ==
    {k \in 1 .. Len(response.devices) :
        \/ toUpdate.type = "undefined"
        \/ response.devices[k].deviceId \in toUpdate.items}

\* the error the callback of devices.map throws before its first await, or
\* Null: a missing signed pre-key, or an identifier without a UUID
ThrownAtOnce(id, device) ==
    IF ~device.signedPreKey
    THEN [name |-> "Error", message |-> "Missing signed prekey"]
    ELSE IF lookup(id) = Undefined
    THEN [name |-> "Error", message |-> "checkedLookup failed"]
    ELSE Null

\* @signalapp/libsignal-client ErrorCode, a numeric enum
ErrorCode == [Generic |-> 0, UntrustedIdentity |-> 3]

\* the error of the callback for a session job that failed with jobError
JobFailure(id, jobError) ==
    IF jobError.name = "LibSignalErrorBase"
       /\ jobError.code = Num(ErrorCode.UntrustedIdentity)
    THEN OutgoingIdentityKeyError(id, jobError)
    ELSE jobError

\* ---- the inputs
Identifiers == {"uuid-1", "+15550002", "+15550003"}
AccessKeys == {Undefined, Str(""), Str("access-key")}
DeviceArray(ids) == [type |-> "array", items |-> ids]
DeviceLists == {Undefined, DeviceArray({1}), DeviceArray({1, 2, 3})}
ServerErrors ==
    {HTTPError(401), HTTPError(403), HTTPError(404), HTTPError(500),
     [name |-> "Error", code |-> Num(401)],
     [name |-> "Error", code |-> Num(404)],
     [name |-> "Error", code |-> Str("401")],
     [name |-> "Error"],
     Str("aborted")}
Device(k, signed) ==
    [deviceId |-> k, registrationId |-> k, signedPreKey |-> signed]
ServerKeys ==
    {[identityKey |-> "identity-key",
      devices |-> [k \in 1 .. Len(signed) |-> Device(k, signed[k])]] :
        signed \in SeqsUpTo(BOOLEAN, MaxDevices)}
JobErrors ==
    {[name |-> "LibSignalErrorBase", code |-> Num(ErrorCode.UntrustedIdentity)],
     [name |-> "LibSignalErrorBase", code |-> Num(ErrorCode.Generic)],
     [name |-> "Error", message |-> "session job failed"]}

True == [type |-> "boolean", value |-> TRUE]

\* ---- one call of getKeysForIdentifier, a step per await
InitKeys ==
    /\ identifier \in Identifiers
    /\ accessKey \in AccessKeys
    /\ devicesToUpdate \in DeviceLists
    /\ endpointCalls = <<>>
    /\ accessKeyFailed = Undefined
    /\ serverKeys = Undefined
    /\ caught = Undefined
    /\ archivedSessions = {}
    /\ sessionJobs = {}
    /\ keysOutcome = Undefined
    /\ text = <<>>
    /\ TreeIdle /\ FilterIdle /\ ApplyIdle /\ GroupIdle /\ SnippetIdle
    /\ ServiceIdle
    /\ pc = "getServerKeys"

KeysFrame ==
    UNCHANGED <<bodyRangeVars, serviceVars, identifier, accessKey,
                devicesToUpdate>>

Call(endpoint) == [endpoint |-> endpoint, response |-> Pending]
Answered(calls, response) ==
    [calls EXCEPT ![Len(calls)] = [@ EXCEPT !.response = response]]

\* getServerKeys, the try block up to its await
GetServerKeys ==
    /\ pc = "getServerKeys"
    /\ IF ~Truthy(accessKey)
       THEN /\ endpointCalls' = Append(endpointCalls, Call(AUTH))
            /\ pc' = "awaitAuth"
       ELSE /\ endpointCalls' = Append(endpointCalls, Call(UNAUTH))
            /\ pc' = "awaitUnauth"
    /\ KeysFrame
    /\ UNCHANGED <<accessKeyFailed, serverKeys, caught, archivedSessions,
                   sessionJobs, keysOutcome>>

\* the server answers the pending call with keys
ServerReturnsKeys(response) ==
    /\ pc \in {"awaitAuth", "awaitUnauth", "awaitFallback"}
    /\ endpointCalls' = Answered(endpointCalls, response)
    /\ serverKeys' = response
    /\ accessKeyFailed' = IF pc = "awaitFallback" THEN True ELSE Undefined
    /\ pc' = "handleServerKeys"
    /\ KeysFrame
    /\ UNCHANGED <<caught, archivedSessions, sessionJobs, keysOutcome>>

\* the pending call fails: in the try block the catch clause of
\* getServerKeys takes the error, in that catch clause the error leaves
\* getServerKeys
ServerFails(err) ==
    /\ pc \in {"awaitAuth", "awaitUnauth", "awaitFallback"}
    /\ endpointCalls' = Answered(endpointCalls, err)
    /\ caught' = err
    /\ pc' = IF pc = "awaitFallback" THEN "catch" ELSE "getServerKeysCatch"
    /\ KeysFrame
    /\ UNCHANGED <<accessKeyFailed, serverKeys, archivedSessions,
                   sessionJobs, keysOutcome>>

\* getServerKeys, the catch clause up to its await or its throw
GetServerKeysCatch ==
    /\ pc = "getServerKeysCatch"
    /\ IF AccessKeyFailure(accessKey, caught)
       THEN /\ endpointCalls' = Append(endpointCalls, Call(AUTH))
            /\ pc' = "awaitFallback"
       ELSE /\ endpointCalls' = endpointCalls
            /\ pc' = "catch"
    /\ KeysFrame
    /\ UNCHANGED <<accessKeyFailed, serverKeys, caught, archivedSessions,
                   sessionJobs, keysOutcome>>

\* handleServerKeys and the return of getKeysForIdentifier: failed are the
\* devices whose session job fails.  Promise.all rejects with the first
\* rejection: a callback that throws before its await rejects before any
\* session job has run, the session jobs fail in any order.
HandleServerKeys ==
    /\ pc = "handleServerKeys"
    /\ LET considered == Considered(serverKeys, devicesToUpdate)
           atOnce == {k \in considered :
                        ThrownAtOnce(identifier, serverKeys.devices[k]) # Null}
           queued == considered \ atOnce
       IN  \E failed \in SUBSET queued :
             \E errors \in [failed -> JobErrors] :
               /\ sessionJobs' = queued \ failed
               /\ IF atOnce # {}
                  THEN LET first == CHOOSE k \in atOnce :
                                      \A j \in atOnce : k <= j
                       IN  /\ caught' = ThrownAtOnce(identifier,
                                                     serverKeys.devices[first])
                           /\ keysOutcome' = keysOutcome
                           /\ pc' = "catch"
                  ELSE IF failed # {}
                  THEN \E k \in failed :
                         /\ caught' = JobFailure(identifier, errors[k])
                         /\ keysOutcome' = keysOutcome
                         /\ pc' = "catch"
                  ELSE /\ caught' = caught
                       /\ keysOutcome' =
                            Resolved([accessKeyFailed |-> accessKeyFailed])
                       /\ pc' = "settled"
    /\ KeysFrame
    /\ UNCHANGED <<endpointCalls, accessKeyFailed, serverKeys,
                   archivedSessions>>

\* getKeysForIdentifier, the catch clause up to its await or its throw
CatchError ==
    /\ pc = "catch"
    /\ IF IsNotFound(caught)
       THEN IF Truthy(lookup(identifier))
            THEN /\ pc' = "archiveAllSessions"
                 /\ keysOutcome' = keysOutcome
            ELSE /\ pc' = "settled"
                 /\ keysOutcome' =
                      Rejected(UnregisteredUserError(identifier, caught))
       ELSE /\ pc' = "settled"
            /\ keysOutcome' = Rejected(caught)
    /\ KeysFrame
    /\ UNCHANGED <<endpointCalls, accessKeyFailed, serverKeys, caught,
                   archivedSessions, sessionJobs>>

\* archiveAllSessions(theirUuid) completes, then UnregisteredUserError
ArchiveAllSessions ==
    /\ pc = "archiveAllSessions"
    /\ archivedSessions' = archivedSessions \cup {lookup(identifier).value}
    /\ keysOutcome' = Rejected(UnregisteredUserError(identifier, caught))
    /\ pc' = "settled"
    /\ KeysFrame
    /\ UNCHANGED <<endpointCalls, accessKeyFailed, serverKeys, caught,
                   sessionJobs>>

NextKeys ==
    \/ GetServerKeys
    \/ \E response \in ServerKeys : ServerReturnsKeys(response)
    \/ \E err \in ServerErrors : ServerFails(err)
    \/ GetServerKeysCatch
    \/ HandleServerKeys
    \/ CatchError
    \/ ArchiveAllSessions

SpecKeys == InitKeys /\ [][NextKeys]_vars

KeysCalled == pc \in {"getServerKeys", "awaitAuth", "awaitUnauth",
                      "getServerKeysCatch", "awaitFallback",
                      "handleServerKeys", "catch", "archiveAllSessions",
                      "settled"}
IsFailure(response) == ~isRecord(response) \/ "devices" \notin DOMAIN response
Code401Or403(response) ==
    /\ isRecord(response) /\ "code" \in DOMAIN response
    /\ response.code.type = "number"
    /\ response.code.value \in {401, 403}
Http404(err) ==
    /\ isRecord(err) /\ err.name = "HTTPError" /\ err.code.value = 404
\* the call has failed with err, or with err as an unregistered user
FailedWith(err) ==
    /\ keysOutcome.threw
    /\ IF Http404(err)
       THEN keysOutcome.error = UnregisteredUserError(identifier, err)
       ELSE keysOutcome.error = err

\* C29: with an access key (a non-empty one) the first call goes to the
\* unauthenticated endpoint, and the authenticated endpoint is called,
\* once, exactly when that call failed with code 401 or 403; the result has
\* accessKeyFailed true exactly when that second call was made; without
\* an access key the only call goes to the authenticated endpoint; a
\* failure of any other kind, and a failure of the second call, ends the
\* call with that failure and no further call is made.
AccessKeyFallback ==
    KeysCalled =>
      LET n == Len(endpointCalls)
          settled == pc = "settled"
      IN  /\ n <= 2
          /\ n >= 1 =>
               endpointCalls[1].endpoint =
                 IF Truthy(accessKey) THEN UNAUTH ELSE AUTH
          /\ n = 2 =>
               /\ Truthy(accessKey)
               /\ endpointCalls[2].endpoint = AUTH
               /\ Code401Or403(endpointCalls[1].response)
          /\ settled =>
               /\ n >= 1
               /\ Truthy(accessKey)
                    /\ Code401Or403(endpointCalls[1].response) => n = 2
               /\ ~keysOutcome.threw =>
                    (keysOutcome.value.accessKeyFailed = True) <=> (n = 2)
               /\ ~keysOutcome.threw =>
                    keysOutcome.value.accessKeyFailed \in {True, Undefined}
               /\ IsFailure(endpointCalls[n].response) =>
                    FailedWith(endpointCalls[n].response)

\* the unauthenticated call failed with 401 or 403, the authenticated call
\* returned keys and the call returned accessKeyFailed true
AccessKeyFallbackWitness ==
    /\ pc = "settled"
    /\ Len(endpointCalls) = 2
    /\ endpointCalls[1].endpoint = UNAUTH
    /\ Code401Or403(endpointCalls[1].response)
    /\ ~keysOutcome.threw
    /\ keysOutcome.value.accessKeyFailed = True

====
